---- MODULE Spec2Model ----
(***************************************************************************)
(* Expression trees of dask_expr/_core.py: the Expr node, its identity     *)
(* (_name), the rewrite engine (rewrite, simplify_once, simplify,          *)
(* lower_once, lower_completely), substitute and materialize.              *)
(*                                                                         *)
(* A node is a record [k |-> "node", type, ops, obj]: its class name, its  *)
(* operand list and the object it is (obj = 0 for a node an engine         *)
(* operation constructed, a positive number for a node of the caller).     *)
(* An operand is a node or a literal [k |-> "lit", lt, v].  Python's None  *)
(* is [k |-> "none"].                                                      *)
(***************************************************************************)
EXTENDS Integers, Sequences, FiniteSets, TLC

VARIABLES
  hooks,       \* the hook methods the classes define: [down, up : Types -> rule]
  op,          \* the operation that was called on self
  self,        \* the node the operation was called on
  arg,         \* the operation's further arguments
  pc,          \* "call", "run", "done" or "raised"
  result,      \* the value returned, or the exception raised
  stack,       \* materialize: the local list `stack`
  seen,        \* materialize: the local set `seen`
  layers,      \* materialize: the local list `layers`
  layerCalls,  \* the identities _layer() was called on, in call order
  frames,      \* the call stack of rewrite / simplify_once / lower_once
  expr,        \* the local `expr` of simplify and lower_completely
  dependents,  \* the local `dependents` of simplify
  lastHook,    \* the last hook call made: which hook, on what, and what it returned
  first,       \* the result of a first run, kept to run the operation again on it
  cache,       \* the memoized _name of the nodes it was read from: node -> identity
  returned     \* simplify, lower_completely: the local `new`, what the last round returned

vars == <<hooks, op, self, arg, pc, result, stack, seen, layers, layerCalls,
          frames, expr, dependents, lastHook, first, cache, returned>>

-----------------------------------------------------------------------------
(* Bounds of the model *)

\* input trees have at most this many nodes
MaxSize == 4
\* input trees given to materialize have at most this many nodes
MaxSizeMat == 5
\* the nodes that substitute replaces and puts in have at most this many nodes
MaxSizeSub == 3
\* leaves have 1 .. MaxParts partitions
MaxParts == 2
\* a set of nodes is given at most this many nodes
MaxKeys == 2
\* a constructor is given at most this many positional and keyword arguments
MaxArgs == 2
MaxKwargs == 2

-----------------------------------------------------------------------------
(* Values *)

None == [k |-> "none"]
Lit(lt, v) == [k |-> "lit", lt |-> lt, v |-> v]
Node(type, ops, obj) == [k |-> "node", type |-> type, ops |-> ops, obj |-> obj]

\* a Python list of values
List(items) == [k |-> "list", items |-> items]

\* isinstance(o, Expr)
IsExpr(o) == o.k = "node"

\* The classes of the model: a leaf that reads data, a unary operation, two
\* binary ones, and Fused, whose operand `exprs` is a list of nodes.
Types == {"Leaf", "Neg", "Add", "Sub", "Fused"}

\* Expr._parameters of each class
_parameters(type) ==
  CASE type = "Leaf" -> <<"v", "npartitions">>
    [] type = "Neg"  -> <<"frame">>
    [] type = "Add"  -> <<"left", "right">>
    [] type = "Sub"  -> <<"left", "right">>
    [] type = "Fused" -> <<"exprs">>
    [] type \in {"ResampleCount", "ResampleAgg"} ->
         <<"frame", "rule", "kwargs", "how_args", "how_kwargs">>
    [] type = "ResampleAggregation" ->
         <<"frame", "divisions_left", "divisions_right", "closed", "rule", "kwargs",
           "how", "fill_value", "how_args", "how_kwargs">>
    [] type = "Projection" -> <<"frame", "columns">>
    [] type = "Repartition" -> <<"frame", "new_divisions", "force">>
    [] type = "FromPandas" -> <<"columns", "divisions">>
    [] type = "Merge" -> <<"left", "right", "left_on", "right_on", "npartitions">>

\* Expr._defaults of each class: parameter name -> default
_defaults(type) ==
  CASE type = "Leaf" -> [p \in {"npartitions"} |-> Lit("int", 1)]
    [] type \in {"ResampleCount", "ResampleAgg"} ->
         [p \in {"closed", "label", "kwargs", "how_args", "how_kwargs"} |->
            IF p = "how_args" THEN Lit("tuple", <<>>) ELSE None]
    [] OTHER         -> [p \in {} |-> None]

\* _unpack_collections(o): a node is returned as it is; a collection (a value
\* with an .expr) yields its node; anything else is returned as it is
_unpack_collections(o) ==
  IF IsExpr(o) THEN o
  ELSE IF o.k = "collection" THEN o.expr
  ELSE o

\* Expr.__init__(*args, **kwargs): the operand list of the new node
InitOperands(type, args, kwargs) ==
  LET params == _parameters(type)
      filled == [i \in 1..(IF Len(params) > Len(args) THEN Len(params) ELSE Len(args)) |->
                   IF i <= Len(args) THEN args[i]
                   ELSE IF params[i] \in DOMAIN kwargs THEN kwargs[params[i]]
                   ELSE _defaults(type)[params[i]]]
  IN  [i \in DOMAIN filled |-> _unpack_collections(filled[i])]

NoKwargs == [p \in {} |-> None]

\* type(expr)(*operands): a node the engine constructs
New(type, args) == Node(type, InitOperands(type, args, NoKwargs), 0)

\* Expr.dependencies(): the operands that are nodes, in operand order
dependencies(e) == SelectSeq(e.ops, IsExpr)

\* funcname(type(self)).lower()
Lower(type) ==
  CASE type = "Leaf" -> "leaf"
    [] type = "Neg"  -> "neg"
    [] type = "Add"  -> "add"
    [] type = "Sub"  -> "sub"
    [] type = "Fused" -> "fused"
    [] type = "ResampleCount" -> "resamplecount"
    [] type = "ResampleAgg" -> "resampleagg"
    [] type = "ResampleAggregation" -> "resampleaggregation"
    [] type = "Projection" -> "projection"
    [] type = "Repartition" -> "repartition"
    [] type = "FromPandas" -> "frompandas"
    [] type = "Merge" -> "merge"

\* _tokenize_deterministic(*operands): a literal is hashed by its type and
\* value, a node by its identity; the hash is taken to be collision free
RECURSIVE _name(_)
Token(o) ==
  CASE IsExpr(o) -> _name(o)
    [] o.k = "list" -> [k |-> "toklist", items |-> [j \in DOMAIN o.items |-> _name(o.items[j])]]
    [] o.k = "none" -> [k |-> "tok", lt |-> "NoneType", v |-> 0]
    [] OTHER -> [k |-> "tok", lt |-> o.lt, v |-> o.v]

_tokenize_deterministic(operands) == [i \in DOMAIN operands |-> Token(operands[i])]

\* an identity that depends on the object the node is
NameOfObject(e) ==
  [k |-> "name", tag |-> Lower(e.type), tok |-> _tokenize_deterministic(e.ops), obj |-> e.obj]

\* Expr._name
_name(e) == [k |-> "name", tag |-> Lower(e.type), tok |-> _tokenize_deterministic(e.ops)]

\* Expr.npartitions: a leaf's own, any other node's is its first dependency's
RECURSIVE npartitions(_)
npartitions(e) ==
  CASE e.type = "Leaf" -> e.ops[2].v
    [] e.type = "FromPandas" -> Len(e.ops[2].v) - 1
    [] e.type = "Merge" ->
         IF e.ops[5] # None THEN e.ops[5].v
         ELSE IF npartitions(e.ops[1]) >= npartitions(e.ops[2])
              THEN npartitions(e.ops[1]) ELSE npartitions(e.ops[2])
    [] OTHER -> npartitions(dependencies(e)[1])

-----------------------------------------------------------------------------
(* Input trees *)

\* the data a leaf reads: two different sources
LeafValues == {0, 1}

Leaves(parts) == { Node("Leaf", <<Lit("int", v), Lit("int", p)>>, 1) :
                     v \in LeafValues, p \in parts }

\* The trees of exactly n nodes over the given leaves
RECURSIVE TreesOfSize(_, _, _)
TreesOfSize(n, leaves, binary) ==
  IF n <= 0 THEN {}
  ELSE IF n = 1 THEN leaves
  ELSE { Node("Neg", <<t>>, 1) : t \in TreesOfSize(n - 1, leaves, binary) }
       \cup UNION { { Node(ty, <<l, r>>, 1) :
                        ty \in binary,
                        l \in TreesOfSize(m, leaves, binary),
                        r \in TreesOfSize(n - 1 - m, leaves, binary) } : m \in 1..(n - 2) }

\* The trees of at most n nodes over the given leaves and binary operations
Trees(n, leaves, binary) == UNION { TreesOfSize(m, leaves, binary) : m \in 1..n }

\* The nodes of a tree: itself and the nodes of its dependencies
RECURSIVE Subtrees(_)
Subtrees(e) ==
  {e} \cup UNION { Subtrees(dependencies(e)[i]) : i \in DOMAIN dependencies(e) }

\* The identities reachable from a node
Reachable(e) == { _name(n) : n \in Subtrees(e) }

-----------------------------------------------------------------------------
(* materialize *)

\* A key of the task graph
Key(name, i) == [name |-> name, i |-> i]

\* Expr._task(index): the task of a partition, an operation on the same
\* partition of each dependency
_task(e, index) ==
  [func |-> e.type,
   args |-> [j \in DOMAIN dependencies(e) |-> Key(_name(dependencies(e)[j]), index)]]

\* a shuffle identity that leaves out the merge it belongs to
ShuffleIdOfFrame(m, side) ==
  [k |-> "shuffle", frame |-> _name(m.ops[side]), on |-> m.ops[side + 2].v,
   npartitions |-> npartitions(m)]

\* the identity of the shuffle of one side (1 left, 2 right) of a p2p merge:
\* unique to the merge operation, also when the frame and the parameters of
\* another merge's shuffle are the same
ShuffleId(m, side) ==
  [k |-> "shuffle", merge |-> _name(m), frame |-> _name(m.ops[side]),
   on |-> m.ops[side + 2].v, npartitions |-> npartitions(m)]

\* distributed.shuffle barrier_key(id) and id_from_key(key)
barrier_key(id) == [k |-> "shuffle-barrier", id |-> id]
id_from_key(key) == IF "k" \in DOMAIN key THEN key.id ELSE None

\* the layer of a p2p merge: a barrier for the shuffle of each side, and one
\* task per output partition
P2PLayer(e) ==
  [key \in {barrier_key(ShuffleId(e, side)) : side \in {1, 2}}
            \cup {Key(_name(e), i) : i \in 0..(npartitions(e) - 1)} |->
     IF "k" \in DOMAIN key
     THEN [func |-> "barrier", args |-> <<key.id.frame>>]
     ELSE [func |-> "merge_unpack",
           args |-> <<barrier_key(ShuffleId(e, 1)), barrier_key(ShuffleId(e, 2))>>]]

\* Expr._layer(): one task per partition
_layer(e) ==
  IF e.type = "Merge" THEN P2PLayer(e)
  ELSE [key \in { Key(_name(e), i) : i \in 0..(npartitions(e) - 1) } |-> _task(e, key.i)]

\* toolz.merge of two mappings: the later one wins
Merge2(a, b) ==
  [key \in DOMAIN a \cup DOMAIN b |-> IF key \in DOMAIN b THEN b[key] ELSE a[key]]

RECURSIVE MergeFrom(_, _, _)
MergeFrom(ds, i, acc) ==
  IF i > Len(ds) THEN acc ELSE MergeFrom(ds, i + 1, Merge2(acc, ds[i]))

EmptyDict == [key \in {} |-> None]

\* toolz.merge(layers)
merge(ds) == MergeFrom(ds, 1, EmptyDict)

\* stack.pop(): the last element, and the list without it
Top(s) == s[Len(s)]
Pop(s) == SubSeq(s, 1, Len(s) - 1)

\* a materialize that does not look at `seen`
NeverSeen(e, seenNames) == FALSE

\* `if expr._name in seen: continue`
AlreadySeen(e, seenNames) == _name(e) \in seenNames

UnchangedEngine == UNCHANGED <<frames, expr, dependents, lastHook, first, cache, returned>>
UnchangedMaterialize == UNCHANGED <<stack, seen, layers, layerCalls>>

\* materialize(): stack = [self]; seen = set(); layers = []
MaterializeCall ==
  /\ op = "materialize" /\ pc = "call"
  /\ stack' = <<self>>
  /\ seen' = {}
  /\ layers' = <<>>
  /\ layerCalls' = <<>>
  /\ pc' = "run"
  /\ UNCHANGED <<hooks, op, self, arg, result>>
  /\ UnchangedEngine

\* one turn of `while stack:`
MaterializeStep ==
  /\ op = "materialize" /\ pc = "run" /\ stack # <<>>
  /\ LET e == Top(stack) IN
       IF AlreadySeen(e, seen)
       THEN /\ stack' = Pop(stack)
            /\ UNCHANGED <<seen, layers, layerCalls>>
       ELSE /\ seen' = seen \cup {_name(e)}
            /\ layers' = Append(layers, _layer(e))
            /\ layerCalls' = Append(layerCalls, _name(e))
            /\ stack' = Pop(stack) \o dependencies(e)
  /\ UNCHANGED <<hooks, op, self, arg, pc, result>>
  /\ UnchangedEngine

\* return toolz.merge(layers)
MaterializeReturn ==
  /\ op = "materialize" /\ pc = "run" /\ stack = <<>>
  /\ result' = merge(layers)
  /\ pc' = "done"
  /\ UNCHANGED <<hooks, op, self, arg>>
  /\ UnchangedMaterialize
  /\ UnchangedEngine

\* output keys that count the partitions from 1
output_keys_from_one(e) ==
  [k |-> "keys", items |-> [i \in 1..npartitions(e) |-> Key(_name(e), i)]]

\* Expr.__dask_output_keys__(): [(self._name, i) for i in range(self.npartitions)]
__dask_output_keys__(e) ==
  [k |-> "keys", items |-> [i \in 1..npartitions(e) |-> Key(_name(e), i - 1)]]

\* self.__dask_output_keys__(), after self.materialize()
OutputKeysCall ==
  /\ op = "materialize" /\ pc = "done" /\ returned = None
  /\ returned' = __dask_output_keys__(self)
  /\ UNCHANGED <<hooks, op, self, arg, pc, result>>
  /\ UnchangedMaterialize
  /\ UNCHANGED <<frames, expr, dependents, lastHook, first, cache>>

-----------------------------------------------------------------------------
(* Hooks *)

\* What the hook methods of the classes do.  The engine is generic in them, so
\* they are inputs: each is one of a few rules.
\*   "absent"  the class does not define the hook (rewrite looks it up by name)
\*   "none"    return None
\*   "same"    return a new node with the same operands (the same identity)
\*   "first"   _down: return the first dependency of the node
\*   "parent"  _up: return the parent as it is
\*   "child"   _up: return the node itself, in place of its parent
\*   "sole"    _simplify_up: return the node itself in place of its parent when
\*             the parent is its only dependent, None otherwise
\*   "toSub"   return the (parent) node as a Sub when it is an Add
\*   "flip"    return the (parent) node as a Sub when it is an Add, as an Add
\*             when it is a Sub
\*   "term"    return the integer 7, which is not a node
\*   "raise"   raise an exception
\*   "wrap"    _lower: return the Add with its first operand in a Neg, unless
\*             that operand is a Neg already
Terminal == Lit("int", 7)

\* the outcome of a call that raised exc
Raised(exc) == [k |-> "raised", exc |-> exc]
IsRaised(x) == x.k = "raised"

Retag(rule, e) ==
  IF e.type = "Add" THEN New("Sub", e.ops)
  ELSE IF e.type = "Sub" /\ rule = "flip" THEN New("Add", e.ops)
  ELSE None

\* frame.columns, in order: a source's and a projection's are an operand, a
\* merge's are the left side's followed by the right side's that are new
RECURSIVE columns(_)
columns(e) ==
  CASE e.type = "FromPandas" -> e.ops[1].v
    [] e.type = "Projection" -> e.ops[2].v
    [] e.type = "Merge" ->
         LET left == columns(e.ops[1])
             InLeft(c) == \E i \in DOMAIN left : left[i] = c
             NotInLeft(c) == ~InLeft(c)
         IN  left \o SelectSeq(columns(e.ops[2]), NotInLeft)
    [] OTHER -> columns(dependencies(e)[1])

\* Projection._simplify_down(): a projection onto all the columns of its
\* frame is the frame
Projection_simplify_down(e) ==
  IF e.ops[2].v = columns(e.ops[1]) THEN e.ops[1] ELSE None

\* what node._{kind}_down() (or node._lower()) returns
DownHook(rule, e) ==
  CASE rule = "none"  -> None
    [] rule = "projection" -> Projection_simplify_down(e)
    [] rule = "same"  -> New(e.type, e.ops)
    [] rule = "first" -> IF dependencies(e) # <<>> THEN dependencies(e)[1] ELSE None
    [] rule = "term"  -> Terminal
    [] rule = "raise" -> Raised([k |-> "exception", name |-> "HookError"])
    [] rule = "wrap"  -> IF e.type = "Add" /\ IsExpr(e.ops[1]) /\ e.ops[1].type # "Neg"
                         THEN New("Add", <<New("Neg", <<e.ops[1]>>), e.ops[2]>>)
                         ELSE None
    [] rule \in {"toSub", "flip"} -> Retag(rule, e)

\* len(dependents[name]) of a defaultdict(list)
NumDependents(deps, name) == IF name \in DOMAIN deps THEN Len(deps[name]) ELSE 0

\* expr[columns]: the projection of a frame onto columns
__getitem__(e, key) == New("Projection", <<e, key>>)

\* ResampleReduction._simplify_up(self, parent)
ResampleReduction_simplify_up(child, parent) ==
  IF parent.type = "Projection"
  THEN New(child.type, <<__getitem__(child.ops[1], parent.ops[2])>> \o Tail(child.ops))
  ELSE None

\* the columns of a side that a projection of the merge or the key needs
Needed(frame, key, projection) ==
  LET Keep(c) == c = key \/ \E i \in DOMAIN projection : projection[i] = c
  IN  SelectSeq(columns(frame), Keep)

\* Merge._simplify_up(parent, dependents): under a projection, a merge of the
\* sides projected onto the columns needed, under the same projection
Merge_simplify_up(child, parent) ==
  IF parent.type = "Projection"
  THEN LET left == child.ops[1]
           right == child.ops[2]
           project_left == Needed(left, child.ops[3].v, parent.ops[2].v)
           project_right == Needed(right, child.ops[4].v, parent.ops[2].v)
       IN  IF project_left # columns(left) \/ project_right # columns(right)
           THEN __getitem__(New("Merge", <<__getitem__(left, Lit("tuple", project_left)),
                                            __getitem__(right, Lit("tuple", project_right))>>
                                           \o SubSeq(child.ops, 3, Len(child.ops))),
                            parent.ops[2])
           ELSE None
  ELSE None

\* FromPandas._simplify_up(parent, dependents): a source under a projection
\* reads the projected columns only
FromPandas_simplify_up(child, parent) ==
  IF parent.type = "Projection" THEN New("FromPandas", <<parent.ops[2], child.ops[2]>>)
  ELSE None

\* The parameters a class's _simplify_up takes besides self: Expr's takes
\* (parent, dependents), that of the resample reductions takes (parent)
_simplify_up_parameters(rule) ==
  IF rule \in {"resample", "resample_agg"} THEN <<"parent">> ELSE <<"parent", "dependents">>

\* what child._{kind}_up(parent) (or child._simplify_up(parent, dependents)) returns
UpHook(rule, child, parent, deps) ==
  CASE rule = "none"   -> None
    [] rule = "resample" -> ResampleReduction_simplify_up(child, parent)
    [] rule = "resample_agg" -> None
    [] rule = "merge" -> Merge_simplify_up(child, parent)
    [] rule = "frompandas" -> FromPandas_simplify_up(child, parent)
    [] rule = "same"   -> New(parent.type, parent.ops)
    [] rule = "parent" -> parent
    [] rule = "child"  -> child
    [] rule = "sole"   -> IF NumDependents(deps, _name(child)) = 1 THEN child ELSE None
    [] rule = "term"   -> Terminal
    [] rule = "raise"  -> Raised([k |-> "exception", name |-> "HookError"])
    [] rule \in {"toSub", "flip"} -> Retag(rule, parent)

\* a hook call: which hook, on which node, with which parent, what it returned,
\* and in which call of the recursion (1 = the call made on self)
HookCall(hook, on, parent, out) ==
  [hook |-> hook, on |-> on, parent |-> parent, out |-> out, depth |-> 0]
NoCall == [hook |-> "none"]

-----------------------------------------------------------------------------
(* collect_depdendents *)

\* dependents[key].append(value) on a defaultdict(list)
AppendTo(d, key, value) ==
  [x \in DOMAIN d \cup {key} |->
     IF x = key THEN Append(IF key \in DOMAIN d THEN d[key] ELSE <<>>, value) ELSE d[x]]

\* for dep in node.dependencies(): stack.append(dep); dependents[dep._name].append(ref(node))
RECURSIVE AddDependents(_, _, _, _)
AddDependents(node, j, stk, deps) ==
  IF j > Len(dependencies(node)) THEN [stack |-> stk, dependents |-> deps]
  ELSE AddDependents(node, j + 1, Append(stk, dependencies(node)[j]),
                     AppendTo(deps, _name(dependencies(node)[j]), node))

\* a loop that does not skip the identities it has seen
RECURSIVE CollectLoopUnseen(_, _, _)
CollectLoopUnseen(stk, seenNames, deps) ==
  IF stk = <<>> THEN deps
  ELSE LET r == AddDependents(Top(stk), 1, Pop(stk), deps)
       IN  CollectLoopUnseen(r.stack, seenNames, r.dependents)

\* the loop `while stack:` of collect_depdendents
RECURSIVE CollectLoop(_, _, _)
CollectLoop(stk, seenNames, deps) ==
  IF stk = <<>> THEN deps
  ELSE LET node == Top(stk) IN
       IF _name(node) \in seenNames THEN CollectLoop(Pop(stk), seenNames, deps)
       ELSE LET r == AddDependents(node, 1, Pop(stk), deps)
            IN  CollectLoop(r.stack, seenNames \cup {_name(node)}, r.dependents)

\* collect_depdendents(expr): identity -> list of references to its parents
collect_depdendents(e) == CollectLoop(<<e>>, {}, EmptyDict)

-----------------------------------------------------------------------------
(* The rewrite engine: rewrite, simplify_once and lower_once, one step at a    *)
(* time.  `frames` is the call stack of the recursion; a frame holds the      *)
(* locals of one call: self, expr, where the call is (at), the loop index i,  *)
(* new_operands and changed, and for the loop over the dependencies the node  *)
(* the loop runs over (parent) and the dependencies whose hook it has called  *)
(* (offered).                                                                 *)

Frame(e) == [self |-> e, expr |-> e, at |-> "down", i |-> 1, new_operands |-> <<>>,
             changed |-> FALSE, parent |-> e, offered |-> <<>>]

\* What a step does: the call goes on with new locals, calls itself on an
\* operand, returns a value, or raises
Stay(f, h) == [kind |-> "stay", frame |-> f, hook |-> h]
Recurse(f, callee) == [kind |-> "call", frame |-> f, callee |-> callee, hook |-> NoCall]
Return(v, h) == [kind |-> "return", value |-> v, hook |-> h]
Raise(exc, h) == [kind |-> "raise", exc |-> exc, hook |-> h]

Exception(name) == [k |-> "exception", name |-> name]

ToUp(f) == [f EXCEPT !.at = "up", !.i = 1, !.parent = f.expr, !.offered = <<>>]
ToChildren(f) == [f EXCEPT !.at = "children", !.i = 1, !.new_operands = <<>>, !.changed = FALSE]
ToDown(f, e) == [f EXCEPT !.at = "down", !.expr = e]
\* `continue`: the next turn of rewrite's `while True:`
NextTurn(f, e) == [f EXCEPT !.at = "down", !.expr = e, !.i = 1, !.parent = e, !.offered = <<>>]

\* rewrite: "# Rewrite this node"
rewrite_down(f) ==
  LET e == f.expr
      rule == hooks.down[e.type]
  IN  IF rule = "absent" THEN Stay(ToUp(f), NoCall)
      ELSE LET raw == DownHook(rule, e)
               out == IF raw = None THEN e ELSE raw
               h == HookCall("down", e, None, raw)
           IN  IF IsRaised(raw) THEN Raise(raw.exc, h)
               ELSE IF ~IsExpr(out) THEN Return(out, h)
               ELSE IF _name(out) # _name(e) THEN Stay(NextTurn(f, out), h)
               ELSE Stay(ToUp(f), h)

\* a loop over the dependencies that is not left at a proposal: the last one wins
rewrite_up_no_break(f) ==
  LET e == f.expr
      deps == dependencies(e)
  IN  IF f.i > Len(deps) THEN Stay(ToChildren(f), NoCall)
      ELSE LET child == deps[f.i]
               rule == hooks.up[child.type]
           IN  IF rule = "absent" THEN Stay([f EXCEPT !.i = f.i + 1], NoCall)
               ELSE LET raw == UpHook(rule, child, e, EmptyDict)
                        out == IF raw = None THEN e ELSE raw
                        h == HookCall("up", child, e, raw)
                        g == [f EXCEPT !.offered = Append(f.offered, f.i)]
                    IN  IF ~IsExpr(out) THEN Return(out, h)
                        ELSE IF out # e /\ _name(out) # _name(e)
                        THEN Stay([g EXCEPT !.expr = out, !.i = f.i + 1], h)
                        ELSE Stay([g EXCEPT !.i = f.i + 1], h)

\* rewrite: "# Allow children to rewrite their parents", one dependency
rewrite_up(f) ==
  LET e == f.expr
      deps == dependencies(e)
  IN  IF f.i > Len(deps) THEN Stay(ToChildren(f), NoCall)
      ELSE LET child == deps[f.i]
               rule == hooks.up[child.type]
           IN  IF rule = "absent" THEN Stay([f EXCEPT !.i = f.i + 1], NoCall)
               ELSE LET raw == UpHook(rule, child, e, EmptyDict)
                        out == IF raw = None THEN e ELSE raw
                        h == HookCall("up", child, e, raw)
                        g == [f EXCEPT !.offered = Append(f.offered, f.i)]
                    IN  IF IsRaised(raw) THEN Raise(raw.exc, h)
                        ELSE IF ~IsExpr(out) THEN Return(out, h)
                        ELSE IF out # e /\ _name(out) # _name(e)
                        THEN Stay([ToDown(g, out) EXCEPT !.i = 1], h)
                        ELSE Stay([g EXCEPT !.i = f.i + 1], h)

\* rewrite: "# Rewrite all of the children", one operand, and the end of the loop
rewrite_children(f) ==
  LET e == f.expr IN
  IF f.i > Len(e.ops)
  THEN IF f.changed THEN Stay(NextTurn(f, New(e.type, f.new_operands)), NoCall)
       ELSE Return(e, NoCall)
  ELSE IF IsExpr(e.ops[f.i]) THEN Recurse(f, e.ops[f.i])
  ELSE Stay([f EXCEPT !.new_operands = Append(f.new_operands, e.ops[f.i]), !.i = f.i + 1],
            NoCall)

\* simplify_once: expr._simplify_down()
simplify_once_down(f) ==
  LET e == f.expr
      raw == DownHook(hooks.down[e.type], e)
      out == IF raw = None THEN e ELSE raw
      h == HookCall("down", e, None, raw)
  IN  IF IsRaised(raw) THEN Raise(raw.exc, h)
      ELSE IF ~IsExpr(out) THEN Return(out, h)
      ELSE IF _name(out) # _name(e) THEN Stay(ToUp([f EXCEPT !.expr = out]), h)
      ELSE Stay(ToUp(f), h)

\* simplify_once: "# Allow children to simplify their parents", one dependency
simplify_once_up(f, deps_index) ==
  LET e == f.expr
      deps == dependencies(e)
  IN  IF f.i > Len(deps) THEN Stay(ToChildren(f), NoCall)
      ELSE LET child == deps[f.i]
               raw == IF Len(_simplify_up_parameters(hooks.up[child.type])) # 2
                      THEN Raised(Exception("TypeError"))
                      ELSE UpHook(hooks.up[child.type], child, e, deps_index)
               out == IF raw = None THEN e ELSE raw
               h == HookCall("up", child, e, raw)
               g == [f EXCEPT !.offered = Append(f.offered, f.i)]
           IN  IF IsRaised(raw) THEN Raise(raw.exc, h)
               ELSE IF ~IsExpr(out) THEN Return(out, h)
               ELSE IF out # e /\ _name(out) # _name(e)
               THEN Stay(ToChildren([g EXCEPT !.expr = out]), h)
               ELSE Stay([g EXCEPT !.i = f.i + 1], h)

\* simplify_once: "# Rewrite all of the children", one operand, and the end
simplify_once_children(f) ==
  LET e == f.expr IN
  IF f.i > Len(e.ops)
  THEN IF f.changed THEN Return(New(e.type, f.new_operands), NoCall)
       ELSE Return(e, NoCall)
  ELSE IF IsExpr(e.ops[f.i]) THEN Recurse(f, e.ops[f.i])
  ELSE Stay([f EXCEPT !.new_operands = Append(f.new_operands, e.ops[f.i]), !.i = f.i + 1],
            NoCall)

\* a lower_once that takes a value that is not a node for None
lower_once_lower_drops_value(f) ==
  LET e == f.expr
      raw == DownHook(hooks.down[e.type], e)
      out == IF raw = None \/ ~IsExpr(raw) THEN e ELSE raw
      h == HookCall("lower", e, None, raw)
  IN  Stay(ToChildren([f EXCEPT !.expr = out]), h)

\* a lower_once that lowers the operands of expr, not those of out
lower_once_lower_operands_of_expr(f) ==
  LET e == f.expr
      raw == DownHook(hooks.down[e.type], e)
      out == IF raw = None THEN e ELSE raw
      h == HookCall("lower", e, None, raw)
  IN  IF ~IsExpr(out) THEN Return(out, h)
      ELSE Stay(ToChildren(f), h)

\* a lower_once that goes on with the node when its hook raises
lower_once_lower_catches(f) ==
  LET e == f.expr
      raw == DownHook(hooks.down[e.type], e)
      out == IF raw = None \/ IsRaised(raw) THEN e ELSE raw
      h == HookCall("lower", e, None, raw)
  IN  IF ~IsExpr(out) THEN Return(out, h)
      ELSE Stay(ToChildren([f EXCEPT !.expr = out]), h)

\* lower_once: "# Lower this node"
lower_once_lower(f) ==
  LET e == f.expr
      raw == DownHook(hooks.down[e.type], e)
      out == IF raw = None THEN e ELSE raw
      h == HookCall("lower", e, None, raw)
  IN  IF IsRaised(raw) THEN Raise(raw.exc, h)
      ELSE IF ~IsExpr(out) THEN Return(out, h)
      ELSE Stay(ToChildren([f EXCEPT !.expr = out]), h)

\* a lower_once that leaves the operands as they are
lower_once_children_unlowered(f) == Return(f.expr, NoCall)

\* lower_once: "# Lower all children", one operand, and the end
lower_once_children(f) ==
  LET out == f.expr IN
  IF f.i > Len(out.ops)
  THEN IF f.changed THEN Return(New(out.type, f.new_operands), NoCall)
       ELSE Return(out, NoCall)
  ELSE IF IsExpr(out.ops[f.i]) THEN Recurse(f, out.ops[f.i])
  ELSE Stay([f EXCEPT !.new_operands = Append(f.new_operands, out.ops[f.i]), !.i = f.i + 1],
            NoCall)

\* new = operand.rewrite(kind) (or .simplify_once, .lower_once) has returned
\* in the loop over the operands: `if new._name != operand._name: changed = True;
\* new_operands.append(new)`.  A value that is not a node has no _name.
child_returned(f, new) ==
  LET operand == f.expr.ops[f.i] IN
  IF ~IsExpr(new) THEN Raise(Exception("AttributeError"), NoCall)
  ELSE Stay([f EXCEPT !.changed = f.changed \/ _name(new) # _name(operand),
                      !.new_operands = Append(f.new_operands, new),
                      !.i = f.i + 1], NoCall)

-----------------------------------------------------------------------------
(* substitute *)

IsException(x) == x.k = "exception"

\* isinstance(operand, type(old)) for literals: an instance of a subclass is an
\* instance of the class; bool is a subclass of int, and "float64" stands for
\* a subclass of float (as numpy.float64 is)
IsInstance(o, lt) ==
  \/ o.lt = lt
  \/ (o.lt = "bool" /\ lt = "int")
  \/ (o.lt = "float64" /\ lt = "float")

\* `not isinstance(operand, bool) and isinstance(operand, type(old)) and operand == old`
LiteralMatches(operand, old) ==
  /\ operand.k = "lit" /\ old.k = "lit"
  /\ operand.lt # "bool"
  /\ IsInstance(operand, old.lt)
  /\ operand.v = old.v

\* a match on the class alone
TypeMatches(e, old) == e.type = old.type

\* `self._name == old._name`
NodeMatches(e, old) == _name(e) = _name(old)

\* `"Fused" in type(self).__name__`
IsFused(type) == type = "Fused"

AllExprs(items) == \A j \in DOMAIN items : IsExpr(items[j])

RECURSIVE substitute(_, _, _)
RECURSIVE SubstituteList(_, _, _, _, _, _)
RECURSIVE SubstituteOperands(_, _, _, _, _, _)

\* the loop over the list operand of a Fused
SubstituteList(items, j, val, update, old, new) ==
  IF j > Len(items) THEN [k |-> "ok", val |-> val, update |-> update]
  ELSE LET v == substitute(items[j], old, new) IN
       IF IsException(v) THEN v
       ELSE IF ~IsExpr(v) THEN Exception("AttributeError")
       ELSE SubstituteList(items, j + 1, Append(val, v),
                           update \/ _name(v) # _name(items[j]), old, new)

\* the loop `for operand in self.operands:` of substitute, from operand i on
SubstituteOperands(e, i, new_exprs, update, old, new) ==
  IF i > Len(e.ops) THEN [k |-> "ok", val |-> new_exprs, update |-> update]
  ELSE LET operand == e.ops[i] IN
       IF IsExpr(operand)
       THEN LET val == substitute(operand, old, new) IN
            IF IsException(val) THEN val
            ELSE IF ~IsExpr(val) THEN Exception("AttributeError")
            ELSE SubstituteOperands(e, i + 1, Append(new_exprs, val),
                                    update \/ _name(operand) # _name(val), old, new)
       ELSE IF IsFused(e.type) /\ operand.k = "list" /\ AllExprs(operand.items)
       THEN LET r == SubstituteList(operand.items, 1, <<>>, update, old, new) IN
            IF IsException(r) THEN r
            ELSE SubstituteOperands(e, i + 1, Append(new_exprs, List(r.val)),
                                    r.update, old, new)
       ELSE IF ~IsExpr(old) /\ LiteralMatches(operand, old)
       THEN SubstituteOperands(e, i + 1, Append(new_exprs, new), TRUE, old, new)
       ELSE SubstituteOperands(e, i + 1, Append(new_exprs, operand), update, old, new)

\* a substitute that recreates the node whether or not something changed
substitute_rebuilds(e, old, new) ==
  IF IsExpr(old) /\ NodeMatches(e, old) THEN new
  ELSE IF ~IsExpr(old) /\ old.k = "lit" /\ old.lt = "bool" THEN Exception("TypeError")
  ELSE LET r == SubstituteOperands(e, 1, <<>>, FALSE, old, new) IN
       IF IsException(r) THEN r
       ELSE New(e.type, r.val)

\* Expr.substitute(old, new): the value returned, or the exception raised
substitute(e, old, new) ==
  IF IsExpr(old) /\ NodeMatches(e, old) THEN new
  ELSE IF ~IsExpr(old) /\ old.k = "lit" /\ old.lt = "bool" THEN Exception("TypeError")
  ELSE LET r == SubstituteOperands(e, 1, <<>>, FALSE, old, new) IN
       IF IsException(r) THEN r
       ELSE IF r.update THEN New(e.type, r.val)
       ELSE e

UnchangedLocals ==
  UNCHANGED <<stack, seen, layers, layerCalls, frames, expr, dependents, lastHook, cache, returned>>

\* self.substitute(old, new)
SubstituteCall ==
  /\ op = "substitute" /\ pc = "call"
  /\ LET r == substitute(self, arg.old, arg.new) IN
       /\ result' = r
       /\ pc' = IF IsException(r) THEN "raised" ELSE "done"
  /\ UNCHANGED <<hooks, op, self, arg, first>>
  /\ UnchangedLocals

\* the result substituted back: self.substitute(old, new).substitute(new, old)
SubstituteBack ==
  /\ op = "substitute" /\ pc = "done" /\ first = None /\ IsExpr(result)
  /\ first' = result
  /\ LET r == substitute(result, arg.new, arg.old) IN
       /\ result' = r
       /\ pc' = IF IsException(r) THEN "raised" ELSE "done"
  /\ UNCHANGED <<hooks, op, self, arg>>
  /\ UnchangedLocals

-----------------------------------------------------------------------------
(* _name, memoized *)

\* the node with every node of it being object o
RECURSIVE WithObj(_, _)
WithObjOperand(x, o) ==
  CASE IsExpr(x) -> WithObj(x, o)
    [] x.k = "list" -> List([j \in DOMAIN x.items |-> WithObj(x.items[j], o)])
    [] OTHER -> x
WithObj(e, o) == Node(e.type, [i \in DOMAIN e.ops |-> WithObjOperand(e.ops[i], o)], o)

\* The nodes of a tree, those in the list of a Fused included
RECURSIVE Nodes(_)
NodesOfOperand(x) ==
  CASE IsExpr(x) -> Nodes(x)
    [] x.k = "list" -> UNION { Nodes(x.items[j]) : j \in DOMAIN x.items }
    [] OTHER -> {}
Nodes(e) == {e} \cup UNION { NodesOfOperand(e.ops[i]) : i \in DOMAIN e.ops }

\* functools.cached_property: reading node._name computes it (reading the _name
\* of the operands that are nodes) and keeps it on the node
Memoize(c, n) ==
  [x \in DOMAIN c \cup Subtrees(n) |-> IF x \in DOMAIN c THEN c[x] ELSE _name(x)]

\* node._name is read, for the first time, on a node of self or of arg
ReadName ==
  /\ op = "_name" /\ pc = "run"
  /\ \E n \in Subtrees(self) \cup Subtrees(arg) :
       /\ n \notin DOMAIN cache
       /\ cache' = Memoize(cache, n)
  /\ UNCHANGED <<hooks, op, self, arg, pc, result, first>>
  /\ UNCHANGED <<stack, seen, layers, layerCalls, frames, expr, dependents, lastHook, returned>>

NoHooks == [down |-> [t \in Types |-> "none"], up |-> [t \in Types |-> "none"]]

\* The operations that run simplify_once / lower_once in a loop
Drivers == {"simplify", "lower_completely"}

\* a simplify that leaves its loop after one round
simplify_round_once(new) ==
  IF ~IsExpr(new) THEN [kind |-> "raise", exc |-> Exception("AttributeError")]
  ELSE [kind |-> "return", value |-> new]

\* a simplify that builds the index once, before its loop
simplify_round_stale_index(new) ==
  IF ~IsExpr(new) THEN [kind |-> "raise", exc |-> Exception("AttributeError")]
  ELSE IF _name(new) = _name(expr) THEN [kind |-> "return", value |-> expr]
  ELSE [kind |-> "again", expr |-> new, dependents |-> dependents]

\* simplify: `new = expr.simplify_once(dependents)` has returned; lines
\* `if new._name == expr._name: break; expr = new`, and the next turn of the
\* loop: dependents = collect_depdendents(expr); expr.simplify_once(dependents)
simplify_round(new) ==
  IF ~IsExpr(new) THEN [kind |-> "raise", exc |-> Exception("AttributeError")]
  ELSE IF _name(new) = _name(expr) THEN [kind |-> "return", value |-> expr]
  ELSE [kind |-> "again", expr |-> new, dependents |-> collect_depdendents(new)]

\* a lower_completely that leaves its loop after one round
lower_completely_round_once(new) ==
  IF ~IsExpr(new) THEN [kind |-> "raise", exc |-> Exception("AttributeError")]
  ELSE [kind |-> "return", value |-> new]

\* lower_completely: `new = expr.lower_once()` has returned; lines
\* `if new._name == expr._name: break; expr = new`
lower_completely_round(new) ==
  IF ~IsExpr(new) THEN [kind |-> "raise", exc |-> Exception("AttributeError")]
  ELSE IF _name(new) = _name(expr) THEN [kind |-> "return", value |-> expr]
  ELSE [kind |-> "again", expr |-> new, dependents |-> dependents]

\* The call made on self has returned v
Finish(v) ==
  LET r == IF op = "simplify" THEN simplify_round(v)
           ELSE IF op = "lower_completely" THEN lower_completely_round(v)
           ELSE [kind |-> "return", value |-> v]
  IN  /\ returned' = IF op \in Drivers THEN v ELSE returned
      /\ CASE r.kind = "return" ->
                /\ pc' = "done" /\ result' = r.value /\ frames' = <<>>
                /\ UNCHANGED <<expr, dependents>>
           [] r.kind = "raise" ->
                /\ pc' = "raised" /\ result' = r.exc /\ frames' = <<>>
                /\ UNCHANGED <<expr, dependents>>
           [] r.kind = "again" ->
                /\ expr' = r.expr /\ dependents' = r.dependents
                /\ frames' = <<Frame(r.expr)>>
                /\ UNCHANGED <<pc, result>>

\* The effect of one step of the call on top of the call stack
Apply(o) ==
  /\ lastHook' = IF o.hook = NoCall THEN lastHook
                 ELSE [o.hook EXCEPT !.depth = Len(frames)]
  /\ CASE o.kind = "stay" ->
            /\ frames' = [frames EXCEPT ![Len(frames)] = o.frame]
            /\ UNCHANGED <<pc, result, expr, dependents, returned>>
       [] o.kind = "call" ->
            /\ frames' = Append([frames EXCEPT ![Len(frames)] = o.frame], Frame(o.callee))
            /\ UNCHANGED <<pc, result, expr, dependents, returned>>
       [] o.kind = "raise" ->
            /\ pc' = "raised" /\ result' = o.exc /\ frames' = <<>>
            /\ UNCHANGED <<expr, dependents, returned>>
       [] o.kind = "return" /\ Len(frames) = 1 -> Finish(o.value)
       [] o.kind = "return" /\ Len(frames) > 1 ->
            LET r == child_returned(frames[Len(frames) - 1], o.value) IN
            IF r.kind = "raise"
            THEN /\ pc' = "raised" /\ result' = r.exc /\ frames' = <<>>
                 /\ UNCHANGED <<expr, dependents, returned>>
            ELSE /\ frames' = Append(SubSeq(frames, 1, Len(frames) - 2), r.frame)
                 /\ UNCHANGED <<pc, result, expr, dependents, returned>>
  /\ UNCHANGED <<hooks, op, self, arg, first, cache>>
  /\ UnchangedMaterialize

Running(ops, at) ==
  /\ op \in ops /\ pc = "run" /\ frames # <<>> /\ Top(frames).at = at

\* the call itself: rewrite / simplify_once / lower_once start with expr = self;
\* simplify and lower_completely start their loop
EngineCall ==
  /\ op \in {"rewrite", "simplify_once", "simplify", "lower_once", "lower_completely"}
  /\ pc = "call"
  /\ pc' = "run"
  /\ frames' = <<Frame(self)>>
  /\ expr' = IF op \in Drivers THEN self ELSE expr
  /\ dependents' = IF op \in {"simplify", "simplify_once"}
                   THEN collect_depdendents(self) ELSE dependents
  /\ lastHook' = NoCall
  /\ returned' = None
  /\ UNCHANGED <<hooks, op, self, arg, result, first, cache>>
  /\ UnchangedMaterialize

RewriteDown == Running({"rewrite"}, "down") /\ Apply(rewrite_down(Top(frames)))
RewriteUp == Running({"rewrite"}, "up") /\ Apply(rewrite_up(Top(frames)))
RewriteChildren == Running({"rewrite"}, "children") /\ Apply(rewrite_children(Top(frames)))

SimplifyOps == {"simplify_once", "simplify"}
SimplifyOnceDown == Running(SimplifyOps, "down") /\ Apply(simplify_once_down(Top(frames)))
SimplifyOnceUp == Running(SimplifyOps, "up") /\ Apply(simplify_once_up(Top(frames), dependents))
SimplifyOnceChildren ==
  Running(SimplifyOps, "children") /\ Apply(simplify_once_children(Top(frames)))

LowerOps == {"lower_once", "lower_completely"}
LowerOnceLower == Running(LowerOps, "down") /\ Apply(lower_once_lower(Top(frames)))
LowerOnceChildren == Running(LowerOps, "children") /\ Apply(lower_once_children(Top(frames)))

\* rewrite / simplify / lower_completely has returned a node: it is called
\* again, on its result
CallAgain ==
  /\ op \in Drivers \cup {"rewrite"} /\ pc = "done" /\ first = None /\ IsExpr(result)
  /\ first' = result
  /\ self' = result
  /\ pc' = "call"
  /\ result' = None
  /\ UNCHANGED <<hooks, op, arg, frames, expr, dependents, lastHook, cache, returned>>
  /\ UnchangedMaterialize

-----------------------------------------------------------------------------
(* The hook tables and the initial states *)

\* The classes a hook is defined for: one class, or the two binary operations
\* through a common base class
ClassSets == {{"Leaf"}, {"Neg"}, {"Add", "Sub"}}

\* A rule that does something on one of the classes at least
DownApplies(rule, classes) ==
  CASE rule = "first" -> classes # {"Leaf"}
    [] rule \in {"toSub", "flip"} -> classes = {"Add", "Sub"}
    [] OTHER -> TRUE

Table(default, rule, classes) == [t \in Types |-> IF t \in classes THEN rule ELSE default]

DownTables(default, rules) ==
  {Table(default, default, {})}
    \cup UNION { { Table(default, r, S) : S \in { T \in ClassSets : DownApplies(r, T) } } :
                  r \in rules }

UpTables(default, rules) ==
  {Table(default, default, {})} \cup { Table(default, r, S) : r \in rules, S \in ClassSets }

DownRules == {"same", "first", "term", "toSub", "flip"}
UpRules == {"parent", "child", "term", "flip"}

HookTables(default, downRules, upRules) ==
  { [down |-> d, up |-> u] : d \in DownTables(default, downRules),
                             u \in UpTables(default, upRules) }

InitLocals ==
  /\ arg = None
  /\ pc = "call"
  /\ result = None
  /\ stack = <<>> /\ seen = {} /\ layers = <<>> /\ layerCalls = <<>>
  /\ frames = <<>> /\ expr = None /\ dependents = EmptyDict
  /\ lastHook = NoCall /\ first = None /\ cache = EmptyDict /\ returned = None

\* The trees the engine is run on.  A Sub comes about by a hook only.
EngineTrees == Trees(MaxSize, Leaves({1}), {"Add"})

InitEngine ==
  /\ op \in {"rewrite", "simplify_once", "simplify", "lower_once", "lower_completely"}
  /\ self \in EngineTrees
  /\ hooks \in CASE op = "rewrite" -> HookTables("absent", DownRules, UpRules)
                                        \cup HookTables("none", DownRules, UpRules)
                 [] op \in SimplifyOps -> HookTables("none", DownRules, UpRules \cup {"sole"})
                 [] op \in LowerOps -> { [down |-> d, up |-> u] :
                                           d \in DownTables("none", DownRules),
                                           u \in {Table("none", "none", {}),
                                                   Table("none", "child", Types)} }
  /\ InitLocals

NextEngine ==
  \/ EngineCall
  \/ RewriteDown \/ RewriteUp \/ RewriteChildren
  \/ SimplifyOnceDown \/ SimplifyOnceUp \/ SimplifyOnceChildren
  \/ LowerOnceLower \/ LowerOnceChildren
  \/ CallAgain

SpecEngine == InitEngine /\ [][NextEngine]_vars

\* The engine with hooks that raise among them
RaisingDownRules == {"raise", "first", "toSub"}
RaisingUpRules == {"raise", "child"}

InitRaising ==
  /\ op \in {"rewrite", "simplify_once", "simplify", "lower_once", "lower_completely"}
  /\ self \in EngineTrees
  /\ hooks \in CASE op = "rewrite" -> HookTables("absent", RaisingDownRules, RaisingUpRules)
                                        \cup HookTables("none", RaisingDownRules, RaisingUpRules)
                 [] op \in SimplifyOps -> HookTables("none", RaisingDownRules, RaisingUpRules)
                 [] op \in LowerOps -> { [down |-> d, up |-> u] :
                                           d \in DownTables("none", RaisingDownRules),
                                           u \in {Table("none", "none", {})} }
  /\ InitLocals

SpecRaising == InitRaising /\ [][NextEngine]_vars

\* simplify on frames, projections and resample reductions
FrameColumns == Lit("tuple", <<"a", "b">>)
\* partition boundaries: known ones, or None for every boundary
Divisions(ds) == Lit("tuple", [i \in DOMAIN ds |-> Lit("int", ds[i])])
UnknownDivisions(n) == Lit("tuple", [i \in 1..n |-> None])
Frames ==
  {Node("FromPandas", <<FrameColumns, d>>, 1) :
     d \in {Divisions(<<0, 10>>), Divisions(<<0, 5, 10>>), UnknownDivisions(2), UnknownDivisions(3)}}
Reductions ==
  {Node(t, <<fr, Lit("str", "D"), kw, List(<<>>), None>>, 1) :
     t \in {"ResampleCount", "ResampleAgg"}, fr \in Frames, kw \in {None, Lit("dict", 1)}}
Projections(of) ==
  {Node("Projection", <<fr, Lit("tuple", <<c>>)>>, 1) : fr \in of, c \in {"a", "b"}}
ResampleTypes == {"FromPandas", "Projection", "ResampleCount", "ResampleAgg"}
ResampleTrees == Frames \cup Reductions \cup Projections(Frames \cup Reductions)

\* the hooks the classes define
ResampleHooks ==
  [down |-> [t \in ResampleTypes |-> "none"],
   up |-> [t \in ResampleTypes |->
             CASE t = "ResampleCount" -> "resample"
               [] t = "ResampleAgg" -> "resample_agg"
               [] OTHER -> "none"]]

InitSimplifyResample ==
  /\ op \in SimplifyOps
  /\ self \in ResampleTrees
  /\ hooks = ResampleHooks
  /\ InitLocals

NextSimplifyResample ==
  EngineCall \/ SimplifyOnceDown \/ SimplifyOnceUp \/ SimplifyOnceChildren \/ CallAgain

SpecSimplifyResample == InitSimplifyResample /\ [][NextSimplifyResample]_vars

\* The lower pass with a _lower hook of its own for every class
LowerRules ==
  [Leaf |-> {"none"}, Neg |-> {"none", "first", "same"},
   Add |-> {"none", "first", "toSub", "wrap"}, Sub |-> {"none", "flip"},
   Fused |-> {"none"}]

LowerTables == {d \in [Types -> UNION {LowerRules[t] : t \in Types}] :
                  \A t \in Types : d[t] \in LowerRules[t]}

InitLower ==
  /\ op \in LowerOps
  /\ self \in EngineTrees
  /\ hooks \in {[down |-> d, up |-> Table("none", "none", {})] : d \in LowerTables}
  /\ InitLocals

NextLower == EngineCall \/ LowerOnceLower \/ LowerOnceChildren \/ CallAgain

SpecLower == InitLower /\ [][NextLower]_vars

InitMaterialize ==
  /\ op = "materialize"
  /\ self \in Trees(MaxSizeMat, Leaves(1..MaxParts), {"Add"})
  /\ hooks = NoHooks
  /\ InitLocals

NextMaterialize ==
  MaterializeCall \/ MaterializeStep \/ MaterializeReturn \/ OutputKeysCall

SpecMaterialize == InitMaterialize /\ [][NextMaterialize]_vars

\* two trees built separately: no node of one is a node of the other
InitName ==
  /\ op = "_name"
  /\ self \in EngineTrees
  /\ \E t \in EngineTrees : arg = WithObj(t, 2)
  /\ hooks = NoHooks
  /\ pc = "run"
  /\ result = None
  /\ stack = <<>> /\ seen = {} /\ layers = <<>> /\ layerCalls = <<>>
  /\ frames = <<>> /\ expr = None /\ dependents = EmptyDict
  /\ lastHook = NoCall /\ first = None /\ cache = EmptyDict /\ returned = None

NextName == ReadName

SpecName == InitName /\ [][NextName]_vars

\* the literals that are substituted
SubstLiterals == {Lit("int", 0), Lit("int", 1), Lit("bool", 1), Lit("float", 1)}

\* a Fused of two nodes
FusedTrees ==
  { Node("Fused", <<List(<<a, b>>)>>, 1) : a, b \in Trees(2, Leaves({1}), {"Add"}) }

\* trees whose leaves hold a bool, a float and an instance of a subclass of float
LiteralLeaves ==
  { Node("Leaf", <<Lit(lt, 1), Lit("int", 1)>>, 1) : lt \in {"bool", "float", "float64"} }
LiteralTrees == Trees(3, LiteralLeaves, {"Add"})

\* the trees substitute is called on, and the nodes substituted
SubstTrees == EngineTrees \cup FusedTrees \cup LiteralTrees
SubstNodes == Trees(MaxSizeSub, Leaves({1}), {"Add"})

InitSubstitute ==
  /\ op = "substitute"
  /\ self \in SubstTrees
  /\ \E old \in { WithObj(t, 2) : t \in SubstNodes } \cup SubstLiterals,
        new \in { WithObj(t, 3) : t \in SubstNodes } \cup SubstLiterals :
        /\ IsExpr(old) <=> IsExpr(new)
        /\ arg = [old |-> old, new |-> new]
  /\ hooks = NoHooks
  /\ pc = "call"
  /\ result = None
  /\ stack = <<>> /\ seen = {} /\ layers = <<>> /\ layerCalls = <<>>
  /\ frames = <<>> /\ expr = None /\ dependents = EmptyDict
  /\ lastHook = NoCall /\ first = None /\ cache = EmptyDict /\ returned = None

NextSubstitute == SubstituteCall \/ SubstituteBack

SpecSubstitute == InitSubstitute /\ [][NextSubstitute]_vars

-----------------------------------------------------------------------------
(* Construction *)

\* a collection: a value that is not a node and has an attribute .expr
Collection(e) == [k |-> "collection", expr |-> e]

\* the mapping d without the key p: kwargs.pop(p)
Without(d, p) == [q \in DOMAIN d \ {p} |-> d[q]]

RECURSIVE BindParameters(_, _, _, _)

\* a binding that takes the default although the keyword argument is given
BindDefaultsFirst(type, i, operands, kwargs) ==
  LET params == _parameters(type) IN
  IF i > Len(params) THEN [k |-> "ok", operands |-> operands, kwargs |-> kwargs]
  ELSE IF params[i] \in DOMAIN _defaults(type)
       THEN BindParameters(type, i + 1, Append(operands, _defaults(type)[params[i]]),
                           Without(kwargs, params[i]))
       ELSE IF params[i] \in DOMAIN kwargs
       THEN BindParameters(type, i + 1, Append(operands, kwargs[params[i]]),
                           Without(kwargs, params[i]))
       ELSE Exception("KeyError")

\* `for parameter in type(self)._parameters[len(operands):]`, from parameter i on:
\* the keyword argument of that name is taken out of kwargs, else the default
\* is used; a parameter with neither raises KeyError
BindParameters(type, i, operands, kwargs) ==
  LET params == _parameters(type) IN
  IF i > Len(params) THEN [k |-> "ok", operands |-> operands, kwargs |-> kwargs]
  ELSE IF params[i] \in DOMAIN kwargs
       THEN BindParameters(type, i + 1, Append(operands, kwargs[params[i]]),
                           Without(kwargs, params[i]))
       ELSE IF params[i] \in DOMAIN _defaults(type)
       THEN BindParameters(type, i + 1, Append(operands, _defaults(type)[params[i]]), kwargs)
       ELSE Exception("KeyError")

\* a check of the capability that is never made
CheckNothing(operands, required, meta) == None

\* `if self._required_attribute:` the metadata of the first dependency must
\* have the attribute.  meta is the set of attributes that metadata has.
CheckRequiredAttribute(operands, required, meta) ==
  IF required = None THEN None
  ELSE IF SelectSeq(operands, IsExpr) = <<>> THEN Exception("StopIteration")
  ELSE IF required.v \notin meta THEN Exception("ValueError")
  ELSE None

\* Expr.__init__(*args, **kwargs) of a class that declares `required`: the
\* node constructed, or the exception raised
__init__(type, args, kwargs, required, meta) ==
  LET b == BindParameters(type, Len(args) + 1, args, kwargs) IN
  IF IsException(b) THEN b
  ELSE IF DOMAIN b.kwargs # {} THEN Exception("AssertionError")
  ELSE LET operands == [i \in DOMAIN b.operands |-> _unpack_collections(b.operands[i])]
           c == CheckRequiredAttribute(operands, required, meta)
       IN  IF c # None THEN c ELSE Node(type, operands, 0)

\* the values given to a constructor: a number, a node, a collection of a node
ArgValues ==
  LET leaf == Node("Leaf", <<Lit("int", 0), Lit("int", 1)>>, 1)
  IN  {Lit("int", 5), leaf, Collection(Node("Neg", <<leaf>>, 1))}

\* the names of the keyword arguments: the parameters and a name that is none
KwargNames(type) == { _parameters(type)[i] : i \in DOMAIN _parameters(type) } \cup {"other"}

InitConstruct ==
  /\ op = "__init__"
  /\ \E type \in {"Leaf", "Neg", "Add"},
        n \in 0..MaxArgs,
        required \in {None, Lit("str", "dt")},
        meta \in SUBSET {"dt"} :
       \E args \in [1..n -> ArgValues],
          names \in { S \in SUBSET KwargNames(type) : Cardinality(S) <= MaxKwargs } :
         \E kwargs \in [names -> ArgValues] :
           arg = [type |-> type, args |-> args, kwargs |-> kwargs,
                  required |-> required, meta |-> meta]
  /\ self = None
  /\ hooks = NoHooks
  /\ pc = "call"
  /\ result = None
  /\ stack = <<>> /\ seen = {} /\ layers = <<>> /\ layerCalls = <<>>
  /\ frames = <<>> /\ expr = None /\ dependents = EmptyDict
  /\ lastHook = NoCall /\ first = None /\ cache = EmptyDict /\ returned = None

\* type(*args, **kwargs)
ConstructCall ==
  /\ op = "__init__" /\ pc = "call"
  /\ LET r == __init__(arg.type, arg.args, arg.kwargs, arg.required, arg.meta) IN
       /\ result' = r
       /\ pc' = IF IsException(r) THEN "raised" ELSE "done"
  /\ UNCHANGED <<hooks, op, self, arg, first>>
  /\ UnchangedLocals

NextConstruct == ConstructCall

SpecConstruct == InitConstruct /\ [][NextConstruct]_vars

-----------------------------------------------------------------------------
(* Nodes as keys of a set or dict *)

\* Expr.__hash__: hash(self._name); the hash of a string is taken to be
\* collision free
__hash__(e) == _name(e)

\* x == y: Expr defines no __eq__, so it is object.__eq__, `x is y`
__eq__(x, y) == x = y

\* set.add(x): x is a new key unless a key of its hash is x or equals x
SetAdd(keys, x) ==
  IF \E key \in keys : __hash__(key) = __hash__(x) /\ __eq__(key, x) THEN keys
  ELSE keys \cup {x}

\* two trees built separately, and an empty set
InitKeys ==
  /\ op = "set"
  /\ self \in EngineTrees
  /\ \E t \in EngineTrees : arg = WithObj(t, 2)
  /\ hooks = NoHooks
  /\ pc = "run"
  /\ result = None
  /\ stack = <<>> /\ seen = {} /\ layers = <<>> /\ layerCalls = <<>>
  /\ frames = <<>> /\ expr = None /\ dependents = EmptyDict
  /\ lastHook = NoCall /\ first = None /\ cache = EmptyDict /\ returned = None

\* seen.add(node), for a node of one of the trees
AddKey ==
  /\ op = "set" /\ pc = "run" /\ Cardinality(seen) < MaxKeys
  /\ \E n \in Subtrees(self) \cup Subtrees(arg) : seen' = SetAdd(seen, n)
  /\ UNCHANGED <<hooks, op, self, arg, pc, result, first>>
  /\ UNCHANGED <<stack, layers, layerCalls, frames, expr, dependents, lastHook, cache, returned>>

NextKeys == AddKey

SpecKeys == InitKeys /\ [][NextKeys]_vars

-----------------------------------------------------------------------------
(* substitute_parameters, walk and collect_depdendents as calls of their own *)

\* the loop `for i, operand in enumerate(self.operands):` of substitute_parameters
RECURSIVE SubstituteParametersLoop(_, _, _, _, _)
SubstituteParametersLoop(e, i, new_operands, changed, substitutions) ==
  IF i > Len(e.ops) THEN [val |-> new_operands, changed |-> changed]
  ELSE IF i <= Len(_parameters(e.type)) /\ _parameters(e.type)[i] \in DOMAIN substitutions
       THEN SubstituteParametersLoop(e, i + 1,
              Append(new_operands, substitutions[_parameters(e.type)[i]]), TRUE, substitutions)
       ELSE SubstituteParametersLoop(e, i + 1, Append(new_operands, e.ops[i]), changed,
                                     substitutions)

\* a substitute_parameters that writes the operands into the node it was called on
substitute_parameters_in_place(e, substitutions) ==
  IF DOMAIN substitutions = {} THEN e
  ELSE LET r == SubstituteParametersLoop(e, 1, <<>>, FALSE, substitutions) IN
       IF r.changed THEN [e EXCEPT !.ops = r.val] ELSE e

\* Expr.substitute_parameters(substitutions)
substitute_parameters(e, substitutions) ==
  IF DOMAIN substitutions = {} THEN e
  ELSE LET r == SubstituteParametersLoop(e, 1, <<>>, FALSE, substitutions) IN
       IF r.changed THEN New(e.type, r.val) ELSE e

\* the loop `while stack:` of walk: the nodes yielded, in order
RECURSIVE WalkLoop(_, _, _)
WalkLoop(stk, seenNames, yielded) ==
  IF stk = <<>> THEN yielded
  ELSE LET node == Top(stk) IN
       IF _name(node) \in seenNames THEN WalkLoop(Pop(stk), seenNames, yielded)
       ELSE WalkLoop(Pop(stk) \o dependencies(node), seenNames \cup {_name(node)},
                     Append(yielded, node))

\* list(expr.walk())
walk(e) == List(WalkLoop(<<e>>, {}, <<>>))

\* the mappings given to substitute_parameters: none, a parameter of the class
\* set to a node or to a number, and a name that is no parameter
Substitutions(e) ==
  LET x == WithObj(Node("Leaf", <<Lit("int", 1), Lit("int", 1)>>, 2), 2) IN
  {EmptyDict, [p \in {"other"} |-> x], [p \in {"npartitions"} |-> Lit("int", 2)]}
  \cup { [p \in {q} |-> x] : q \in {"frame", "left", "right"} }

OtherOps == {"substitute_parameters", "walk", "collect_depdendents"}

InitOther ==
  /\ op \in OtherOps
  /\ self \in EngineTrees
  /\ hooks = NoHooks
  /\ arg \in IF op = "substitute_parameters" THEN Substitutions(self) ELSE {None}
  /\ pc = "call"
  /\ result = None
  /\ stack = <<>> /\ seen = {} /\ layers = <<>> /\ layerCalls = <<>>
  /\ frames = <<>> /\ expr = None /\ dependents = EmptyDict
  /\ lastHook = NoCall /\ first = None /\ cache = EmptyDict /\ returned = None

\* self.substitute_parameters(substitutions)
SubstituteParametersCall ==
  /\ op = "substitute_parameters" /\ pc = "call"
  /\ result' = substitute_parameters(self, arg)
  /\ pc' = "done"
  /\ UNCHANGED <<hooks, op, self, arg, first>>
  /\ UnchangedLocals

\* list(self.walk())
WalkCall ==
  /\ op = "walk" /\ pc = "call"
  /\ result' = walk(self)
  /\ pc' = "done"
  /\ UNCHANGED <<hooks, op, self, arg, first>>
  /\ UnchangedLocals

\* collect_depdendents(self)
CollectDependentsCall ==
  /\ op = "collect_depdendents" /\ pc = "call"
  /\ result' = collect_depdendents(self)
  /\ pc' = "done"
  /\ UNCHANGED <<hooks, op, self, arg, first>>
  /\ UnchangedLocals

NextOther == SubstituteParametersCall \/ WalkCall \/ CollectDependentsCall

\* collect_depdendents on larger trees, as a call of its own
InitDependents ==
  /\ op = "collect_depdendents"
  /\ self \in Trees(MaxSizeMat, Leaves({1}), {"Add", "Sub"})
  /\ hooks = NoHooks
  /\ InitLocals

NextDependents == CollectDependentsCall

SpecDependents == InitDependents /\ [][NextDependents]_vars

\* every operation of the engine, on every input of the specifications above
InitOperations == InitEngine \/ InitMaterialize \/ InitSubstitute \/ InitName \/ InitOther

NextOperations == NextEngine \/ NextMaterialize \/ NextSubstitute \/ NextName \/ NextOther

SpecOperations == InitOperations /\ [][NextOperations]_vars

-----------------------------------------------------------------------------
(* Claims *)

\* How often x occurs in the sequence s
Count(s, x) == Cardinality({ i \in DOMAIN s : s[i] = x })

\* The keys (identity, i) of the nodes of a tree
KeysOf(e) ==
  UNION { { Key(_name(n), i) : i \in 0..(npartitions(n) - 1) } : n \in Subtrees(e) }

\* C1: when materialize has returned, _layer() was called exactly once on each
\* identity reachable from the root (and on nothing else), and the mapping
\* returned has exactly the keys (identity, i), i in 0..npartitions-1, of the
\* reachable identities.
C1_LayerOncePerIdentity ==
  (op = "materialize" /\ pc = "done") =>
     /\ \A id \in Reachable(self) : Count(layerCalls, id) = 1
     /\ \A i \in DOMAIN layerCalls : layerCalls[i] \in Reachable(self)
     /\ DOMAIN result = KeysOf(self)

\* a root with two parents of one subexpression, which has two partitions
C1_Witness ==
  /\ op = "materialize" /\ pc = "done"
  /\ self.type = "Add"
  /\ self.ops[1].type = "Neg" /\ self.ops[1] = self.ops[2]
  /\ npartitions(self) = 2

\* The same class and structurally identical operands, whichever objects
SameStructure(x, y) == WithObj(x, 0) = WithObj(y, 0)

\* C2: any two nodes of the same class with structurally identical operands
\* have equal identities, wherever they are in a tree and whichever objects
\* they are.
C2_IdentityIsStructural ==
  op = "_name" =>
    \A x \in DOMAIN cache : \A y \in DOMAIN cache :
       SameStructure(x, y) => cache[x] = cache[y]

\* the identity was read from two different objects of the same structure, one
\* the root of its tree and one an operand in another tree
C2_Witness ==
  /\ op = "_name"
  /\ \E x \in DOMAIN cache : \E y \in DOMAIN cache :
       /\ x.obj # y.obj /\ SameStructure(x, y) /\ x.type = "Neg"
       /\ x = self
       /\ arg.type = "Add" /\ y = arg.ops[1]

\* C3: simplify called on the result of simplify returns, after one round, a
\* node of the same identity.
C3_SimplifyIdempotent ==
  (op = "simplify" /\ first # None) =>
    /\ pc # "raised"
    /\ pc = "run" => expr = first
    /\ pc = "done" => _name(result) = _name(first)

\* simplify changed the tree, and was called again on its result
C3_Witness ==
  /\ op = "simplify" /\ pc = "done" /\ first # None
  /\ first.obj = 0

\* C4: lower_completely called on the result of lower_completely returns,
\* after one round, a node of the same identity.
C4_LowerIdempotent ==
  (op = "lower_completely" /\ first # None) =>
    /\ pc # "raised"
    /\ pc = "run" => expr = first
    /\ pc = "done" => _name(result) = _name(first)

\* lower_completely changed the tree, and was called again on its result
C4_Witness ==
  /\ op = "lower_completely" /\ pc = "done" /\ first # None
  /\ first.obj = 0

\* The identities of the subtrees of e that lie outside every occurrence of a
RECURSIVE NamesOutside(_, _)
NamesOutsideOperand(x, a) ==
  CASE IsExpr(x) -> NamesOutside(x, a)
    [] x.k = "list" -> UNION { NamesOutside(x.items[j], a) : j \in DOMAIN x.items }
    [] OTHER -> {}
NamesOutside(e, a) ==
  IF _name(e) = _name(a) THEN {}
  ELSE {_name(e)} \cup UNION { NamesOutsideOperand(e.ops[i], a) : i \in DOMAIN e.ops }

\* C5: when no subtree of T has B's identity outside the occurrences of A,
\* T.substitute(A, B).substitute(B, A) has the identity of T.
C5_SubstituteRoundTrip ==
  (/\ op = "substitute" /\ pc = "done" /\ first # None
   /\ IsExpr(arg.old) /\ IsExpr(arg.new)
   /\ _name(arg.new) \notin NamesOutside(self, arg.old))
  => _name(result) = _name(self)

\* A was replaced by B below the root, and B by A again
C5_Witness ==
  /\ op = "substitute" /\ pc = "done" /\ first # None
  /\ IsExpr(arg.old) /\ IsExpr(arg.new)
  /\ _name(arg.new) \notin NamesOutside(self, arg.old)
  /\ _name(first) # _name(self)
  /\ _name(self) # _name(arg.old)

\* the index an upward hook is given: rewrite passes none
IndexGiven == IF op = "rewrite" THEN EmptyDict ELSE dependents

\* what the upward hook of dependency j of node p returns
UpOut(p, j) ==
  UpHook(hooks.up[dependencies(p)[j].type], dependencies(p)[j], p, IndexGiven)

\* a proposal: a node whose identity differs from the parent's
IsProposal(out, p) == out # None /\ IsExpr(out) /\ _name(out) # _name(p)

\* the dependencies of p whose class defines the upward hook, among the first n
Hooked(p, n) == { j \in 1..n : hooks.up[dependencies(p)[j].type] # "absent" }

Last(s) == s[Len(s)]

\* the loop over the dependencies of one call, as its frame records it: the
\* hooks were called in operand order, none left out, and only after every
\* earlier one made no proposal; a proposal replaced the parent and ended the loop
FirstProposalWins(f) ==
  LET p == f.parent
      off == f.offered
      n == Len(dependencies(p))
      wins == off # <<>> /\ IsProposal(UpOut(p, Last(off)), p)
  IN  /\ \A a \in DOMAIN off : off[a] \in Hooked(p, n)
      /\ \A a \in DOMAIN off : a > 1 => off[a - 1] < off[a]
      /\ \A a \in DOMAIN off : a < Len(off) => ~IsProposal(UpOut(p, off[a]), p)
      /\ off # <<>> => Hooked(p, Last(off)) = { off[a] : a \in DOMAIN off }
      /\ f.at = "up" => /\ ~wins
                        /\ f.expr = p
                        /\ Hooked(p, f.i - 1) = { off[a] : a \in DOMAIN off }
      /\ f.at = "children" =>
           IF wins THEN op # "rewrite" /\ f.expr = UpOut(p, Last(off))
           ELSE f.expr = p /\ Hooked(p, n) = { off[a] : a \in DOMAIN off }
      /\ (f.at = "down" /\ off # <<>>) => wins /\ f.expr = UpOut(p, Last(off))

\* C6: in one round of rewrite and of simplify_once the dependencies are
\* offered the upward hook in operand order; the first one that returns a node
\* of another identity replaces the parent, and no later dependency is
\* consulted on that parent in that round; after None or a node of the
\* parent's identity the next dependency is consulted.
C6_FirstProposalWins ==
  op \in {"rewrite", "simplify_once", "simplify"} =>
    \A k \in DOMAIN frames : FirstProposalWins(frames[k])

\* the second of two dependencies replaced the parent, after the first one
\* returned None: in rewrite and in simplify_once
C6_Witness ==
  /\ op = "rewrite" /\ frames # <<>>
  /\ LET f == frames[1] IN
       /\ f.offered = <<1, 2>> /\ f.at = "down" /\ f.expr.type = "Neg"
       /\ UpOut(f.parent, 1) = None

C6_WitnessSimplifyOnce ==
  /\ op = "simplify_once" /\ frames # <<>>
  /\ LET f == frames[1] IN
       /\ f.offered = <<1, 2>> /\ f.at = "children" /\ f.expr.type = "Neg"
       /\ UpOut(f.parent, 1) = None /\ f.expr # f.parent

\* C7: when the downward hook of the node rewrite, simplify_once or lower_once
\* was called on, or the upward hook of one of its dependencies, returns a
\* value that is not a node, the operation has returned exactly that value:
\* nothing is running any more, and no hook was called after it.
C7_TerminalValueReturned ==
  (/\ op \in {"rewrite", "simplify_once", "lower_once"}
   /\ lastHook # NoCall
   /\ lastHook.depth = 1
   /\ lastHook.out # None /\ ~IsExpr(lastHook.out))
  => (pc = "done" /\ result = lastHook.out /\ frames = <<>>)

\* the upward hook of the second dependency of self returned the value
C7_Witness ==
  /\ op = "rewrite" /\ pc = "done" /\ result = Terminal
  /\ lastHook.hook = "up" /\ lastHook.parent = self
  /\ Len(dependencies(self)) = 2 /\ lastHook.on = dependencies(self)[2]

\* what node._lower() makes of the node
LoweredOf(n) ==
  LET raw == DownHook(hooks.down[n.type], n) IN IF raw = None THEN n ELSE raw

\* C9: the index simplify gives to a round is the one of the tree the round
\* starts from, and simplify returns only when a round returned a tree of the
\* identity of that round's input.
C9_IndexOfRoundInput ==
  op = "simplify" =>
    /\ pc = "run" => /\ frames[1].self = expr
                     /\ dependents = collect_depdendents(expr)
    /\ pc = "done" => /\ result = expr
                      /\ IsExpr(returned) /\ _name(returned) = _name(expr)
                      /\ dependents = collect_depdendents(expr)

\* a second round runs, on a tree that is not the one simplify was called on
C9_Witness ==
  /\ op = "simplify" /\ pc = "run" /\ first = None
  /\ _name(expr) # _name(self)
  /\ Len(frames) = 2

\* C10: in the lower pass the _lower hook of a node has run before any of its
\* operands is lowered, on the node as it was given (no operand of it lowered);
\* the operands lowered afterwards are those of the hook's result, each by a
\* call of its own; no upward hook is called.
C10_LowersItselfFirst ==
  op \in LowerOps =>
    /\ \A k \in DOMAIN frames :
         LET f == frames[k] IN
           /\ f.at \in {"down", "children"}
           /\ f.at = "down" => (f.expr = f.self /\ f.new_operands = <<>>)
           /\ f.at = "children" =>
                (f.expr = LoweredOf(f.self) /\ Len(f.new_operands) = f.i - 1)
           /\ k < Len(frames) =>
                (f.at = "children" /\ frames[k + 1].self = f.expr.ops[f.i])
    /\ lastHook # NoCall => lastHook.hook = "lower"

\* an operand of the node the hook put in place of self is being lowered, and
\* the classes define upward hooks
C10_Witness ==
  /\ op = "lower_once" /\ Len(frames) = 2
  /\ frames[1].expr # frames[1].self
  /\ frames[1].i = 2
  /\ frames[2].at = "children"
  /\ hooks.up["Leaf"] = "child"

\* no hook alternates between two identities: every replacement a hook makes
\* takes away a node or turns an Add into a Sub
NonOscillating == \A t \in Types : hooks.down[t] # "flip" /\ hooks.up[t] # "flip"

\* the downward hook of Add and Sub alternates between the two, no upward hook
\* does anything, and the tree has an Add
Oscillating ==
  /\ hooks.down["Add"] = "flip"
  /\ \A t \in Types : hooks.up[t] \in {"absent", "none"}
  /\ \E n \in Subtrees(self) : n.type = "Add"

Loops == {"rewrite", "simplify", "lower_completely"}

\* a hook returns the integer, a value that is not a node
TerminalHook == \E t \in Types : hooks.down[t] = "term" \/ hooks.up[t] = "term"

\* When no hook returns a value that is not a node, the three operations run
\* until they return a fixed point, or forever with the alternating hook; the
\* only exception ever raised is the AttributeError of reading ._name of the
\* value a hook returned.
FixedPointOrForever ==
  op \in Loops =>
    /\ (NonOscillating /\ ~TerminalHook) => pc # "raised"
    /\ (pc = "done" /\ first # None) => _name(result) = _name(first)
    /\ (pc = "done" /\ op # "rewrite") => _name(returned) = _name(result)
    /\ Oscillating => pc \notin {"done", "raised"}
    /\ pc = "raised" => (result = Exception("AttributeError") /\ lastHook.out = Terminal)

\* C8: rewrite, simplify and lower_completely carry no iteration cap and stop
\* at a fixed point only.  With hooks that do not oscillate they go on until
\* they return (a run of theirs never ends by raising); what is returned is a
\* fixed point (run again on it, the operation returns the same identity);
\* with the alternating hook they neither return nor raise.
C8_ReturnsAtFixedPointOnly ==
  op \in Loops =>
    /\ NonOscillating => pc # "raised"
    /\ (pc = "done" /\ first # None) => _name(result) = _name(first)
    /\ (pc = "done" /\ op # "rewrite") => _name(returned) = _name(result)
    /\ Oscillating => pc \notin {"done", "raised"}

\* T with every maximal subtree of old's identity replaced by new: a subtree
\* that matches is replaced whole, one that does not is searched operand by
\* operand (the list of a Fused included), and what is put in is left alone
RECURSIVE Replaced(_, _, _)
ReplacedOperand(x, old, new) ==
  CASE IsExpr(x) -> Replaced(x, old, new)
    [] x.k = "list" -> List([j \in DOMAIN x.items |-> Replaced(x.items[j], old, new)])
    [] OTHER -> x
Replaced(e, old, new) ==
  IF _name(e) = _name(old) THEN new
  ELSE Node(e.type, [i \in DOMAIN e.ops |-> ReplacedOperand(e.ops[i], old, new)], 0)

\* C11: T.substitute(old, new) with old a node returns T with every maximal
\* subtree of old's identity replaced by new and nothing else changed; when T
\* itself matches it returns new, the very object; it raises nothing.
C11_ReplacesMaximalMatches ==
  (op = "substitute" /\ pc # "call" /\ first = None /\ IsExpr(arg.old)) =>
    /\ pc = "done"
    /\ SameStructure(result, Replaced(self, arg.old, arg.new))
    /\ NodeMatches(self, arg.old) => result = arg.new

\* old occurs below the root of T and also inside new
C11_Witness ==
  /\ op = "substitute" /\ pc = "done" /\ first = None /\ IsExpr(arg.old)
  /\ ~NodeMatches(self, arg.old)
  /\ _name(arg.old) \in Reachable(self)
  /\ _name(arg.old) \in Reachable(arg.new) /\ _name(arg.old) # _name(arg.new)
  /\ _name(result) # _name(self)

\* T with every operand that is not a node, has old's type and old's value
\* replaced by new, at every depth
RECURSIVE ReplacedLiteral(_, _, _)
ReplacedLiteralOperand(x, old, new) ==
  CASE IsExpr(x) -> ReplacedLiteral(x, old, new)
    [] x.k = "list" -> List([j \in DOMAIN x.items |-> ReplacedLiteral(x.items[j], old, new)])
    [] OTHER -> IF x.lt = old.lt /\ x.v = old.v THEN new ELSE x
ReplacedLiteral(e, old, new) ==
  Node(e.type, [i \in DOMAIN e.ops |-> ReplacedLiteralOperand(e.ops[i], old, new)], 0)

\* C12: T.substitute(old, new) with old not a node returns T with exactly the
\* operands of old's type and value replaced by new, at every depth; a bool
\* operand is never replaced; a bool old raises TypeError, nothing replaced.
C12_ReplacesExactTypeAndValue ==
  (op = "substitute" /\ pc # "call" /\ first = None /\ ~IsExpr(arg.old)) =>
    IF arg.old.lt = "bool"
    THEN pc = "raised" /\ result = Exception("TypeError")
    ELSE pc = "done" /\ SameStructure(result, ReplacedLiteral(self, arg.old, arg.new))

\* the subtree t of T has something substitute(arg.old, arg.new) replaces: a
\* node of old's identity, or an operand that matches the literal old
ContainsMatch(t) ==
  \E n \in Nodes(t) :
    IF IsExpr(arg.old) THEN _name(n) = _name(arg.old)
    ELSE \E i \in DOMAIN n.ops : LiteralMatches(n.ops[i], arg.old)

\* r is what was returned for the subtree t: the very node t when t has no
\* match; a node made anew has its operands returned for the operands of t
RECURSIVE SharesUnaffected(_, _)
SharesUnaffectedOperand(x, y) ==
  CASE IsExpr(x) -> IsExpr(y) /\ SharesUnaffected(x, y)
    [] x.k = "list" -> /\ y.k = "list" /\ DOMAIN y.items = DOMAIN x.items
                       /\ \A j \in DOMAIN x.items : SharesUnaffected(x.items[j], y.items[j])
    [] OTHER -> TRUE
SharesUnaffected(t, r) ==
  IF ~ContainsMatch(t) THEN r = t
  ELSE IF IsExpr(arg.old) /\ _name(t) = _name(arg.old) THEN TRUE
  ELSE IF r = t THEN TRUE
  ELSE /\ r.type = t.type /\ r.obj = 0 /\ DOMAIN r.ops = DOMAIN t.ops
       /\ \A i \in DOMAIN t.ops : SharesUnaffectedOperand(t.ops[i], r.ops[i])

\* C13: substitute makes anew only nodes on a path from the root to a
\* replaced operand; every subtree without a match is returned as the very
\* same node, and when nothing in T matches, T itself is returned.
C13_SharesUnaffected ==
  (op = "substitute" /\ pc = "done" /\ first = None) =>
    /\ SharesUnaffected(self, result)
    /\ ~ContainsMatch(self) => result = self

\* the first operand of an Add was replaced, its second operand is the node it was
C13_Witness ==
  /\ op = "substitute" /\ pc = "done" /\ first = None
  /\ IsExpr(arg.old) /\ self.type = "Add"
  /\ result.obj = 0 /\ result.type = "Add"
  /\ result.ops[1] = arg.new /\ result.ops[2] = self.ops[2]
  /\ self.ops[2].type = "Neg"

\* nothing in T matched the literal, and T was returned
C13_WitnessNoMatch ==
  /\ op = "substitute" /\ pc = "done" /\ first = None
  /\ ~IsExpr(arg.old) /\ ~ContainsMatch(self) /\ self.type = "Add"

\* the nodes held by a mapping whose values are operands, and by one whose
\* values are lists of nodes
NodesOfDict(d) == UNION { NodesOfOperand(d[key]) : key \in DOMAIN d }
NodesOfLists(d) == UNION { UNION { Nodes(d[key][j]) : j \in DOMAIN d[key] } : key \in DOMAIN d }

NodesOfFrame(f) ==
  NodesOfOperand(f.self) \cup NodesOfOperand(f.expr) \cup NodesOfOperand(f.parent)
  \cup UNION { NodesOfOperand(f.new_operands[j]) : j \in DOMAIN f.new_operands }

\* the nodes of the arguments and of the value returned
NodesOfArg ==
  CASE op = "substitute" -> NodesOfOperand(arg.old) \cup NodesOfOperand(arg.new)
    [] op = "substitute_parameters" -> NodesOfDict(arg)
    [] OTHER -> NodesOfOperand(arg)
NodesOfResult ==
  CASE op = "materialize" -> {}
    [] op = "collect_depdendents" /\ pc = "done" -> NodesOfLists(result)
    [] OTHER -> NodesOfOperand(result)

\* The node objects given to the operation, each with the operand list it
\* has: the nodes of self and of the arguments that no operation constructed
Given == { n \in NodesOfOperand(self) \cup NodesOfArg : n.obj # 0 }

\* The node objects the operation holds or has returned that it did not construct
Held ==
  { n \in NodesOfResult
          \cup NodesOfOperand(first) \cup NodesOfOperand(expr) \cup NodesOfOperand(returned)
          \cup UNION { NodesOfFrame(frames[j]) : j \in DOMAIN frames }
          \cup UNION { Nodes(stack[j]) : j \in DOMAIN stack }
          \cup NodesOfLists(dependents) \cup DOMAIN cache :
      n.obj # 0 }

\* C14: no operation changes the operand list or the memoized identity of a
\* node that exists: a node the operation did not construct is, wherever the
\* operation holds or returns it, one of the nodes given, with the operands
\* it had; no step changes the node the operation was called on or its
\* arguments (a further call is made on the result), or an identity that was
\* memoized.
C14_NodesAreImmutable ==
  /\ [](Held \subseteq Given)
  /\ [][/\ arg' = arg
        /\ self' = self \/ (pc = "done" /\ self' = result)
        /\ \A x \in DOMAIN cache : x \in DOMAIN cache' /\ cache'[x] = cache[x]]_vars

\* substitute_parameters returned a node with another operand, and a rewrite
\* changed the tree
C14_Witness ==
  \/ /\ op = "substitute_parameters" /\ pc = "done"
     /\ _name(result) # _name(self) /\ self \in Given
  \/ /\ op = "simplify" /\ pc = "done" /\ first = None
     /\ _name(result) # _name(self) /\ self \in Given

\* C15: nodes are keyed by their identity: two nodes of the same identity hash
\* equally and compare equal, so they are one key of a set, and nodes of
\* different identity compare unequal.
C15_KeyedByIdentity ==
  op = "set" =>
    \A x \in seen : \A y \in seen :
      /\ _name(x) = _name(y) => (__hash__(x) = __hash__(y) /\ __eq__(x, y) /\ x = y)
      /\ _name(x) # _name(y) => ~__eq__(x, y)

\* a collection gives its node, any other value itself
Unwrapped(o) == IF o.k = "collection" THEN o.expr ELSE o

\* the argument bound to parameter i: the i-th positional argument, else the
\* keyword argument of the parameter's name, else the declared default
Bound(i) ==
  LET param == _parameters(arg.type)[i] IN
  IF i <= Len(arg.args) THEN arg.args[i]
  ELSE IF param \in DOMAIN arg.kwargs THEN arg.kwargs[param]
  ELSE _defaults(arg.type)[param]

\* C16: after a construction with at most len(_parameters) positional
\* arguments there is one operand per parameter: the positional argument, else
\* the keyword argument of that name, else the declared default; a collection
\* among them is replaced by its node.
C16_OperandsBoundPositionally ==
  (op = "__init__" /\ pc = "done" /\ Len(arg.args) <= Len(_parameters(arg.type))) =>
    /\ Len(result.ops) = Len(_parameters(arg.type))
    /\ \A i \in DOMAIN result.ops :
         result.ops[i] = Unwrapped(Bound(i)) /\ result.ops[i].k # "collection"

\* an Add of one positional argument, a collection, and the keyword argument right
C16_Witness ==
  /\ op = "__init__" /\ pc = "done" /\ arg.type = "Add"
  /\ Len(arg.args) = 1 /\ arg.args[1].k = "collection"
  /\ DOMAIN arg.kwargs = {"right"}
  /\ result.ops[1] = arg.args[1].expr

\* a Leaf whose npartitions is the declared default, and one given by keyword
C16_WitnessDefault ==
  /\ op = "__init__" /\ pc = "done" /\ arg.type = "Leaf"
  /\ Len(arg.args) = 1 /\ DOMAIN arg.kwargs = {}
  /\ result.ops[2] = Lit("int", 1)

C16_WitnessKeywordOverDefault ==
  /\ op = "__init__" /\ pc = "done" /\ arg.type = "Leaf"
  /\ Len(arg.args) = 1 /\ DOMAIN arg.kwargs = {"npartitions"}
  /\ result.ops[2] = Lit("int", 5)

\* the arguments bind to the parameters: every parameter gets a value and no
\* keyword argument is left over
Binds ==
  LET b == BindParameters(arg.type, Len(arg.args) + 1, arg.args, arg.kwargs)
  IN  ~IsException(b) /\ DOMAIN b.kwargs = {}

\* the operands of the node under construction that are nodes
NodeOperands ==
  LET b == BindParameters(arg.type, Len(arg.args) + 1, arg.args, arg.kwargs)
  IN  SelectSeq([i \in DOMAIN b.operands |-> Unwrapped(b.operands[i])], IsExpr)

\* the metadata of the first node-valued operand lacks the required capability
LacksCapability == arg.required # None /\ arg.required.v \notin arg.meta

C17_WitnessSucceeds ==
  /\ op = "__init__" /\ pc = "done" /\ arg.required # None /\ ~LacksCapability
  /\ arg.type = "Neg" /\ dependencies(result) # <<>>

\* C18: __dask_output_keys__ returns (identity, 0), ..., (identity,
\* npartitions - 1) in this order, and each of them is a key of the mapping
\* materialize returned for the node.
C18_OutputKeysAreMaterialized ==
  (op = "materialize" /\ pc = "done" /\ returned # None) =>
    /\ Len(returned.items) = npartitions(self)
    /\ \A i \in DOMAIN returned.items :
         /\ returned.items[i] = Key(_name(self), i - 1)
         /\ returned.items[i] \in DOMAIN result

\* the keys of a node of two partitions that has dependencies
C18_Witness ==
  /\ op = "materialize" /\ pc = "done" /\ returned # None
  /\ Len(returned.items) = 2 /\ self.type = "Add"

-----------------------------------------------------------------------------
(* Capability dispatch: _rapids/_dispatching.py.  The registry
   __ext_dispatch_classes is held in cache: requested class -> lookup table
   of its Dispatch object (metadata type -> registered class). *)

MaxTuple == 2

\* the classes of the dispatching tests: TmpAdd(expr.Add) and the classes
\* derived from it, TmpDataFrame(DataFrame) and the class derived from it
Bases == [TmpAdd |-> "Expr", CudfAdd |-> "TmpAdd", CudfAddFast |-> "CudfAdd",
          TmpDataFrame |-> "FrameBase", CudfDataFrame |-> "TmpDataFrame"]

ExprClasses == {"TmpAdd", "CudfAdd", "CudfAddFast"}
CollectionClasses == {"TmpDataFrame", "CudfDataFrame"}

RECURSIVE issubclass(_, _)
issubclass(c, d) ==
  \/ c = d
  \/ (c \in DOMAIN Bases /\ issubclass(Bases[c], d))

\* the runtime types a metadata sample can have
MetaTypes == {"pandas.DataFrame", "cudf.DataFrame"}

\* Dispatch.register(t, ext_cls) on the lookup table lk
register(lk, t, ext_cls) == [u \in DOMAIN lk \cup {t} |-> IF u = t THEN ext_cls ELSE lk[u]]

\* a class as a value
Class(name) == [k |-> "class", name |-> name]

\* Dispatch.dispatch(t): the class registered under t, TypeError without one
dispatch(lk, t) == IF t \in DOMAIN lk THEN Class(lk[t]) ELSE Exception("TypeError")

\* `for t in meta_type: __ext_dispatch_classes[cls].register(t, ext_cls)`
RECURSIVE RegisterEach(_, _, _, _)
RegisterEach(lk, meta_type, i, ext_cls) ==
  IF i > Len(meta_type.items) THEN lk
  ELSE RegisterEach(register(lk, meta_type.items[i], ext_cls), meta_type, i + 1, ext_cls)

\* _register_ext_dispatch(cls, meta_type, ext_cls): the registry after the call
_register_ext_dispatch(reg, cls, meta_type, ext_cls) ==
  LET lk == IF cls \in DOMAIN reg THEN reg[cls] ELSE EmptyDict
      new == IF meta_type.k = "tuple"
             THEN RegisterEach(lk, meta_type, 1, ext_cls)
             ELSE register(lk, meta_type.name, ext_cls)
  IN [c \in DOMAIN reg \cup {cls} |-> IF c = cls THEN new ELSE reg[c]]

\* a lookup that never finds a class
_get_ext_dispatch_none(reg, cls, meta) == None

\* _get_ext_dispatch(cls, meta); meta is given by its runtime type
_get_ext_dispatch(reg, cls, meta) ==
  IF cls \notin DOMAIN reg THEN None
  ELSE LET r == dispatch(reg[cls], meta) IN
       IF r.k = "exception" THEN None ELSE r

\* object.__new__(cls) followed by cls.__init__(*args)
Instance(cls, args) == [k |-> "instance", cls |-> cls, args |-> args]

\* cls(*args) for a node type, with Expr.__new__ = override_new_expr; meta is
\* the runtime type of args[0]._meta
RECURSIVE override_new_expr(_, _, _, _)
override_new_expr(reg, cls, args, meta) ==
  IF Len(args) > 0 /\ args[1].k = "node"
  THEN LET use_cls == _get_ext_dispatch(reg, cls, meta) IN
       IF use_cls # None THEN override_new_expr(reg, use_cls.name, args, meta)
       ELSE Instance(cls, args)
  ELSE Instance(cls, args)

\* cls(expr) for a collection type, with FrameBase.__new__ = override_new_collection
RECURSIVE override_new_collection(_, _, _, _)
override_new_collection(reg, cls, args, meta) ==
  LET use_cls == _get_ext_dispatch(reg, cls, meta) IN
  IF use_cls # None THEN override_new_collection(reg, use_cls.name, args, meta)
  ELSE Instance(cls, args)

\* meta_type arguments: one type, or a tuple of types
TypeArg(t) == [k |-> "type", name |-> t]
TupleArg(ts) == [k |-> "tuple", items |-> ts]
MetaTypeArgs ==
  {TypeArg(t) : t \in MetaTypes}
    \cup {TupleArg(ts) : ts \in UNION {[1..n -> MetaTypes] : n \in 0..MaxTuple}}

\* the argument lists of an instantiation
DispatchArgs ==
  LET e == Node("Leaf", <<Lit("int", 0), Lit("int", 1)>>, 2) IN
  {<<>>, <<e>>, <<e, Lit("int", 1)>>, <<Lit("int", 1), e>>, <<Collection(e)>>}

InitDispatch ==
  /\ op = "dispatch"
  /\ self = None /\ arg = None
  /\ hooks = NoHooks
  /\ pc = "run"
  /\ result = None
  /\ stack = <<>> /\ seen = {} /\ layers = <<>> /\ layerCalls = <<>>
  /\ frames = <<>> /\ expr = None /\ dependents = EmptyDict
  /\ lastHook = NoCall /\ first = None /\ cache = EmptyDict /\ returned = None

\* cls.register_dispatch(meta_type)(ext_cls), ext_cls a class derived from cls
RegisterDispatch ==
  /\ op = "dispatch"
  /\ \E cls \in DOMAIN Bases, meta_type \in MetaTypeArgs :
       \E ext_cls \in {c \in DOMAIN Bases : c # cls /\ issubclass(c, cls)} :
         /\ arg' = [call |-> "register", cls |-> cls, meta_type |-> meta_type,
                    ext_cls |-> ext_cls]
         /\ cache' = _register_ext_dispatch(cache, cls, meta_type, ext_cls)
         /\ result' = ext_cls
  /\ pc' = "done"
  /\ UNCHANGED <<hooks, op, self, first>>
  /\ UNCHANGED <<stack, seen, layers, layerCalls, frames, expr, dependents, lastHook, returned>>

\* cls(*args) for a node type
NewExpr ==
  /\ op = "dispatch"
  /\ \E cls \in ExprClasses, args \in DispatchArgs, meta \in MetaTypes :
       /\ arg' = [call |-> "new_expr", cls |-> cls, args |-> args, meta |-> meta]
       /\ result' = override_new_expr(cache, cls, args, meta)
  /\ pc' = "done"
  /\ UNCHANGED <<hooks, op, self, first>>
  /\ UNCHANGED <<stack, seen, layers, layerCalls, frames, expr, dependents, lastHook, cache, returned>>

\* cls(expr) for a collection type
NewCollection ==
  /\ op = "dispatch"
  /\ \E cls \in CollectionClasses, args \in {a \in DispatchArgs : Len(a) = 1 /\ a[1].k = "node"},
        meta \in MetaTypes :
       /\ arg' = [call |-> "new_collection", cls |-> cls, args |-> args, meta |-> meta]
       /\ result' = override_new_collection(cache, cls, args, meta)
  /\ pc' = "done"
  /\ UNCHANGED <<hooks, op, self, first>>
  /\ UNCHANGED <<stack, seen, layers, layerCalls, frames, expr, dependents, lastHook, cache, returned>>

NextDispatch == RegisterDispatch \/ NewExpr \/ NewCollection

SpecDispatch == InitDispatch /\ [][NextDispatch]_vars

\* C19: instantiating a node type with a node as first positional argument,
\* or a collection type, yields an instance of the class registered for the
\* requested type under the metadata type, and a plain instance of the
\* requested type when none is registered; a registration under a tuple of
\* metadata types registers the class under each of them.
Dispatches ==
  \/ arg.call = "new_collection"
  \/ (arg.call = "new_expr" /\ Len(arg.args) > 0 /\ arg.args[1].k = "node")

Registered(cls, meta) == cls \in DOMAIN cache /\ meta \in DOMAIN cache[cls]

C19_DispatchesToRegistered ==
  (op = "dispatch" /\ pc = "done") =>
    /\ (arg.call # "register" /\ Dispatches /\ Registered(arg.cls, arg.meta)) =>
         /\ result.k = "instance" /\ result.args = arg.args
         /\ issubclass(result.cls, cache[arg.cls][arg.meta])
    /\ (arg.call # "register" /\ Dispatches /\ ~Registered(arg.cls, arg.meta)) =>
         result = [k |-> "instance", cls |-> arg.cls, args |-> arg.args]
    /\ (arg.call = "register" /\ arg.meta_type.k = "tuple") =>
         \A i \in 1..Len(arg.meta_type.items) :
           /\ Registered(arg.cls, arg.meta_type.items[i])
           /\ cache[arg.cls][arg.meta_type.items[i]] = arg.ext_cls

C19_Witness ==
  /\ op = "dispatch" /\ pc = "done" /\ arg.call = "new_expr"
  /\ arg.cls = "TmpAdd" /\ Dispatches /\ Registered("TmpAdd", arg.meta)
  /\ result.cls = "CudfAdd"
  /\ ~Registered("TmpAdd", "pandas.DataFrame")

C19_WitnessCollection ==
  /\ op = "dispatch" /\ pc = "done" /\ arg.call = "new_collection"
  /\ Registered(arg.cls, arg.meta) /\ result.cls = "CudfDataFrame"

C19_WitnessPlain ==
  /\ op = "dispatch" /\ pc = "done" /\ arg.call = "new_expr"
  /\ Dispatches /\ ~Registered(arg.cls, arg.meta)
  /\ \E m \in MetaTypes : Registered(arg.cls, m)

C19_WitnessTuple ==
  /\ op = "dispatch" /\ pc = "done" /\ arg.call = "register"
  /\ arg.meta_type.k = "tuple" /\ Len(arg.meta_type.items) = 2
  /\ arg.meta_type.items[1] # arg.meta_type.items[2]

\* C20: an exception raised by a hook during rewrite, simplify or
\* lower_completely (and simplify_once, lower_once) ends the whole call with
\* that exception: no tree is returned, no step of the call follows (the hook
\* is not called again, the exception is not caught), and the input tree is
\* as it was.
HookRaised == lastHook # NoCall /\ IsRaised(lastHook.out)

C20_HookExceptionPropagates ==
  /\ [](/\ HookRaised => /\ pc = "raised" /\ result = lastHook.out.exc
                         /\ frames = <<>>
        /\ (pc = "raised" /\ result = Exception("HookError")) => HookRaised)
  /\ [][/\ pc # "raised"
        /\ (pc' = "raised" => self' = self /\ first' = first)
        /\ (pc = "run" => self' = self)]_vars

C20_Witness ==
  /\ op = "rewrite" /\ pc = "raised" /\ HookRaised
  /\ lastHook.hook = "up" /\ lastHook.parent.type = "Sub" /\ self.type = "Add"

C20_WitnessNested ==
  /\ op = "lower_completely" /\ pc = "raised" /\ HookRaised /\ lastHook.depth > 1

C20_WitnessLater ==
  /\ op = "simplify" /\ pc = "raised" /\ HookRaised /\ expr # self

\* C29: when the hook of a node that is not the root returns a value that is
\* not a node, rewrite, simplify_once and lower_once called on the root
\* complete without raising an error.
NestedTerminal ==
  /\ op \in {"rewrite", "simplify_once", "lower_once"}
  /\ lastHook # NoCall /\ lastHook.out = Terminal
  /\ (lastHook.depth > 1 \/ lastHook.hook = "up")

C29_NestedTerminalCompletes == NestedTerminal => pc # "raised"

\* the part that holds: the value of a hook called by the call made on the
\* root (the root's own hook, or the upward hook of one of its dependencies)
\* is returned
C29_TerminalAtRootReturned ==
  (op \in {"rewrite", "simplify_once", "lower_once"} /\ lastHook # NoCall
     /\ lastHook.out = Terminal /\ lastHook.depth = 1)
    => (pc = "done" /\ result = Terminal)

\* lower_once as a function of the node: what the call returns, or Raised(..)
\* when it raises
RECURSIVE lower_once(_)
lower_once(e) ==
  LET raw == DownHook(hooks.down[e.type], e)
      out == IF raw = None THEN e ELSE raw
  IN  IF IsRaised(raw) THEN raw
      ELSE IF ~IsExpr(out) THEN out
      ELSE LET new == [i \in DOMAIN out.ops |->
                         IF IsExpr(out.ops[i]) THEN lower_once(out.ops[i]) ELSE out.ops[i]]
               nodes == {i \in DOMAIN out.ops : IsExpr(out.ops[i])}
           IN  IF \E i \in nodes : IsRaised(new[i]) THEN Raised(Exception("HookError"))
               ELSE IF \E i \in nodes : ~IsExpr(new[i]) THEN Raised(Exception("AttributeError"))
               ELSE IF \E i \in nodes : _name(new[i]) # _name(out.ops[i])
               THEN New(out.type, new)
               ELSE out

\* C30: when lower_completely returns a tree, the _lower hook of every node
\* reachable in it returns no change: None, or a node of that node's identity.
NoChange(n) ==
  LET raw == DownHook(hooks.down[n.type], n) IN
  raw = None \/ (IsExpr(raw) /\ _name(raw) = _name(n))

C30_FullyLowered ==
  (op = "lower_completely" /\ pc = "done" /\ IsExpr(result)) =>
    \A n \in Subtrees(result) : NoChange(n)

\* lower_once(a) has a's identity although a's hook returns a replacement:
\* lowering the operands of the replacement gives a's operands back
Undone(a) ==
  /\ ~NoChange(a)
  /\ IsExpr(lower_once(a)) /\ _name(lower_once(a)) = _name(a)

\* C30, amended: what lower_completely returns is a fixed point of lower_once,
\* and the _lower hook of every node reachable in it returns no change,
\* except for the nodes at or below a node whose replacement is undone by the
\* lowering of the replacement's operands.
C30_FullyLoweredUnlessUndone ==
  (op = "lower_completely" /\ pc = "done" /\ IsExpr(result)) =>
    /\ IsExpr(lower_once(result)) /\ _name(lower_once(result)) = _name(result)
    /\ \A n \in Subtrees(result) :
         NoChange(n) \/ \E a \in Subtrees(result) : n \in Subtrees(a) /\ Undone(a)

\* a tree is returned after more than one round, with hooks that replace
\* nodes below the root, none of them undone
C30_Witness ==
  /\ op = "lower_completely" /\ pc = "done" /\ IsExpr(result)
  /\ _name(result) # _name(self) /\ first = None
  /\ hooks.down["Neg"] = "first" /\ self.type = "Add"
  /\ \A n \in Subtrees(result) : NoChange(n)

\* the returned tree has a node whose hook returns a replacement
C30_WitnessUndone ==
  /\ op = "lower_completely" /\ pc = "done" /\ IsExpr(result)
  /\ \E n \in Subtrees(result) : Undone(n)

\* C27: the index collect_depdendents returns holds, under the identity d, one
\* reference to a node of identity p per occurrence of d among the
\* dependencies of p, for the identities reachable from the root, and nothing
\* else: an identity reached along several paths is recorded once, every
\* listed parent has d as a dependency, and the root has no entry.
Entries(idx, d) == IF d \in DOMAIN idx THEN idx[d] ELSE <<>>

C27_DependentsIndex ==
  (op = "collect_depdendents" /\ pc = "done") =>
    /\ \A p \in Subtrees(self), d \in Subtrees(self) :
         Cardinality({i \in DOMAIN Entries(result, _name(d)) :
                        _name(Entries(result, _name(d))[i]) = _name(p)})
           = Cardinality({j \in DOMAIN dependencies(p) :
                            _name(dependencies(p)[j]) = _name(d)})
    /\ \A d \in DOMAIN result :
         /\ result[d] # <<>>
         /\ \A i \in DOMAIN result[d] :
              /\ result[d][i] \in Subtrees(self)
              /\ \E j \in DOMAIN dependencies(result[d][i]) :
                   _name(dependencies(result[d][i])[j]) = d
    /\ _name(self) \notin DOMAIN result

\* a node that has a dependency occurs twice in the tree
C27_Witness ==
  /\ op = "collect_depdendents" /\ pc = "done"
  /\ self.type = "Add" /\ self.ops[1] = self.ops[2] /\ self.ops[1].type = "Neg"
  /\ Len(result[_name(self.ops[1])]) = 2
  /\ Len(result[_name(self.ops[1].ops[1])]) = 1

-----------------------------------------------------------------------------
(* Operand access by name: Expr.operand and Expr.__getattr__ *)

\* list.index(x): the first position of x, 0 when x is not in the list (where
\* Python raises ValueError)
Index(s, x) ==
  IF \E i \in DOMAIN s : s[i] = x
  THEN CHOOSE i \in DOMAIN s : s[i] = x /\ \A j \in DOMAIN s : s[j] = x => i <= j
  ELSE 0

\* Expr.operand(key)
operand(e, key) ==
  IF Index(_parameters(e.type), key) = 0 THEN Raised(Exception("ValueError"))
  ELSE e.ops[Index(_parameters(e.type), key)]

\* the exception of a lookup that found nothing, as Python raises it
RawAttributeError == Raised(Exception("AttributeError"))

\* the errors __getattr__ raises: the one for _meta names the node, the other
\* the API coverage document
MetaError(e) ==
  Raised([k |-> "exception", name |-> "RuntimeError",
          text |-> "Failed to generate metadata for", node |-> e])
ApiError ==
  Raised([k |-> "exception", name |-> "AttributeError", text |-> "api-coverage"])

EmptyKwargs == Lit("dict", 0)

\* the resample reductions, which define properties named as two of their parameters
ResampleReductions == {"ResampleCount", "ResampleAgg"}

\* How evaluating self._meta ends: with a value, with an AttributeError raised
\* in the property, or with another exception (Expr._meta itself raises
\* NotImplementedError)
MetaOutcomes == {"value", "AttributeError", "NotImplementedError"}

\* object.__getattribute__(self, key): the attributes a node has without
\* __getattr__: the instance attribute operands, the property _meta, and for a
\* resample reduction the class attribute how and the properties kwargs and how_kwargs
__getattribute__(e, key, meta) ==
  CASE key = "operands" -> List(e.ops)
    [] key = "_meta" ->
         (CASE meta = "value" -> Lit("str", "meta")
            [] meta = "AttributeError" -> RawAttributeError
            [] meta = "NotImplementedError" -> Raised(Exception("NotImplementedError")))
    [] key \in {"kwargs", "how_kwargs"} /\ e.type \in ResampleReductions ->
         IF operand(e, key) = None THEN EmptyKwargs ELSE operand(e, key)
    [] key = "how" /\ e.type \in ResampleReductions -> Lit("str", "count")
    [] OTHER -> RawAttributeError

\* a __getattr__ that looks among the parameters first
getattr_parameters_first(e, key, meta) ==
  IF Index(_parameters(e.type), key) # 0 THEN e.ops[Index(_parameters(e.type), key)]
  ELSE LET found == __getattribute__(e, key, meta) IN
       IF found # RawAttributeError THEN found
       ELSE IF key = "_meta" THEN MetaError(e) ELSE ApiError

\* Expr.__getattr__(key)
__getattr__(e, key, meta) ==
  LET found == __getattribute__(e, key, meta) IN
  IF found # RawAttributeError THEN found
  ELSE IF key = "_meta" THEN MetaError(e)
  ELSE IF Index(_parameters(e.type), key) # 0 THEN e.ops[Index(_parameters(e.type), key)]
  ELSE ApiError

\* self.key: the attribute if the node has it, else what __getattr__ gives
getattr(e, key, meta) ==
  LET found == __getattribute__(e, key, meta) IN
  IF found # RawAttributeError THEN found ELSE __getattr__(e, key, meta)

\* the nodes whose operands are read, and the names they are read by
AttrLeaf == Node("Leaf", <<Lit("int", 0), Lit("int", 1)>>, 1)
AttrNodes ==
  {AttrLeaf, Node("Neg", <<AttrLeaf>>, 1), Node("Add", <<AttrLeaf, Node("Neg", <<AttrLeaf>>, 1)>>, 1)}
    \cup {Node(t, <<AttrLeaf, Lit("str", "D"), kw, List(<<>>), hkw>>, 1) :
            t \in ResampleReductions, kw \in {None, Lit("dict", 1)}, hkw \in {None, Lit("dict", 1)}}

AttrKeys ==
  {"v", "npartitions", "frame", "left", "right", "rule", "kwargs", "how_args", "how_kwargs",
   "operands", "how", "_meta", "sum"}

InitAttr ==
  /\ op \in {"getattr", "operand"}
  /\ self \in AttrNodes
  /\ arg \in [key : AttrKeys, meta : MetaOutcomes]
  /\ hooks = NoHooks
  /\ pc = "call"
  /\ result = None
  /\ stack = <<>> /\ seen = {} /\ layers = <<>> /\ layerCalls = <<>>
  /\ frames = <<>> /\ expr = None /\ dependents = EmptyDict
  /\ lastHook = NoCall /\ first = None /\ cache = EmptyDict /\ returned = None

\* self.<key>
GetAttrCall ==
  /\ op = "getattr" /\ pc = "call"
  /\ result' = getattr(self, arg.key, arg.meta)
  /\ pc' = "done"
  /\ UNCHANGED <<hooks, op, self, arg, first>>
  /\ UnchangedLocals

\* self.operand(key)
OperandCall ==
  /\ op = "operand" /\ pc = "call"
  /\ result' = operand(self, arg.key)
  /\ pc' = "done"
  /\ UNCHANGED <<hooks, op, self, arg, first>>
  /\ UnchangedLocals

NextAttr == GetAttrCall \/ OperandCall

SpecAttr == InitAttr /\ [][NextAttr]_vars

\* C21: for every declared parameter name, attribute access and operand(name)
\* return the operand at the parameter's position; a name that is neither
\* declared nor an attribute is rejected with the error that names the API
\* coverage; a _meta lookup that fails with an attribute error is reported as
\* the error naming the node.
Declared == Index(_parameters(self.type), arg.key) # 0
AtPosition == self.ops[Index(_parameters(self.type), arg.key)]
HasAttribute == __getattribute__(self, arg.key, arg.meta) # RawAttributeError

C21_AccessByName ==
  pc = "done" =>
    /\ Declared => result = AtPosition
    /\ (op = "getattr" /\ ~Declared /\ ~HasAttribute /\ arg.key # "_meta") => result = ApiError
    /\ (op = "getattr" /\ arg.key = "_meta" /\ arg.meta = "AttributeError")
         => result = MetaError(self)

\* C21, amended: operand(name) returns the operand at the position of every
\* declared name; attribute access does so for a declared name that is not an
\* attribute of the node, and returns the attribute for a name that is one.
C21_AccessByNameUnlessAttribute ==
  pc = "done" =>
    /\ (op = "operand" /\ Declared) => result = AtPosition
    /\ (op = "getattr" /\ Declared /\ ~HasAttribute) => result = AtPosition
    /\ (op = "getattr" /\ HasAttribute) =>
         result = __getattribute__(self, arg.key, arg.meta)
    /\ (op = "getattr" /\ ~Declared /\ ~HasAttribute /\ arg.key # "_meta") => result = ApiError
    /\ (op = "getattr" /\ arg.key = "_meta" /\ arg.meta = "AttributeError")
         => result = MetaError(self)
    /\ (op = "getattr" /\ arg.key = "_meta" /\ arg.meta = "NotImplementedError")
         => result = Raised(Exception("NotImplementedError"))

\* a declared name that is a property of the node as well, with a value that
\* is not the operand
C21_Witness ==
  /\ op = "getattr" /\ pc = "done" /\ Declared /\ HasAttribute
  /\ arg.key = "kwargs" /\ result = EmptyKwargs /\ AtPosition = None

C21_WitnessOperand ==
  /\ op = "operand" /\ pc = "done" /\ Declared /\ HasAttribute /\ result = None

C21_WitnessAttribute ==
  /\ op = "getattr" /\ pc = "done" /\ Declared /\ ~HasAttribute
  /\ self.type = "Add" /\ arg.key = "right" /\ result = self.ops[2]

C21_WitnessMeta ==
  /\ op = "getattr" /\ pc = "done" /\ arg.key = "_meta" /\ result = MetaError(self)

C21_WitnessApi ==
  /\ op = "getattr" /\ pc = "done" /\ arg.key = "sum" /\ result = ApiError

\* C28: simplifying a Projection whose frame is a resample reduction other
\* than ResampleAgg completes and yields the reduction of the same type over
\* the frame projected onto the projection's columns, its other operands
\* unchanged; for ResampleAgg the projection is left in place.
ProjectionOfReduction ==
  /\ op \in SimplifyOps
  /\ self.type = "Projection" /\ self.ops[1].type \in ResampleReductions

PushedDown(p) ==
  New(p.ops[1].type, <<__getitem__(p.ops[1].ops[1], p.ops[2])>> \o Tail(p.ops[1].ops))

C28_ProjectionPushedDown ==
  (ProjectionOfReduction /\ first = None) =>
    /\ pc # "raised"
    /\ pc = "done" =>
         IF self.ops[1].type = "ResampleAgg" THEN _name(result) = _name(self)
         ELSE _name(result) = _name(PushedDown(self))

\* what does hold: the call ends with the TypeError of the call of the hook
C28_RaisesTypeError ==
  (ProjectionOfReduction /\ pc \in {"done", "raised"}) =>
    (pc = "raised" /\ result = Exception("TypeError"))

-----------------------------------------------------------------------------
(* Resampling: Resampler, ResampleReduction._lower and ResampleAggregation *)

MaxBins == 3

\* expr.divisions of a frame
divisions(e) == operand(e, "divisions").v

\* what _resample_bin_and_out_divs(divisions, rule, **kwargs) returns for a
\* frame of known divisions: the boundaries of the bins to repartition to and
\* the output divisions, n + 1 boundaries for n >= 1 output partitions
BinAndOutDivs ==
  {<<[i \in 1..(b + 1) |-> Lit("int", 10 * (i - 1))], [i \in 1..(n + 1) |-> Lit("int", 10 * (i - 1))]>> :
     b \in 1..MaxBins, n \in 1..MaxBins}

\* a Resampler that does not look at the divisions
Resampler__init__unchecked(obj, rule, kwargs) ==
  [k |-> "resampler", obj |-> obj, rule |-> rule, kwargs |-> kwargs]

\* Resampler.__init__(obj, rule, **kwargs)
Resampler__init__(obj, rule, kwargs) ==
  IF divisions(obj.expr)[1] = None THEN Raised(Exception("ValueError"))
  ELSE [k |-> "resampler", obj |-> obj, rule |-> rule, kwargs |-> kwargs]

\* Resampler._single_agg(expr_cls, how_args, how_kwargs), the node of the
\* collection it returns
_single_agg(resampler, expr_cls, how_args, how_kwargs) ==
  Node(expr_cls,
       InitOperands(expr_cls, <<resampler.obj.expr, resampler.rule, resampler.kwargs>>,
                    [p \in {"how_args", "how_kwargs"} |->
                       IF p = "how_args" THEN how_args ELSE how_kwargs]), 0)

\* the class attribute `how` of a resample reduction
how(type) == IF type = "ResampleAgg" THEN Lit("str", "agg") ELSE Lit("str", "count")
fill_value == Lit("float", 0)

BlockwiseDep(iterable) == [k |-> "blockwisedep", iterable |-> iterable]

\* list(t) of a tuple
list(t) == List(t.v)

\* [x] * n
Repeat(x, n) == [i \in 1..n |-> x]

\* Repartition(frame, new_divisions=..., force=True)
Repartition(frame, new_divisions) ==
  Node("Repartition", <<frame, Lit("tuple", new_divisions), Lit("bool", 1)>>, 0)

\* a _lower whose table of closed sides says "left" for every partition
_lower_closed_left(e, divs) ==
  LET partitioned == Repartition(e.ops[1], divs[1])
      output_divisions == divs[2]
  IN  New("ResampleAggregation",
          <<partitioned,
            BlockwiseDep(SubSeq(output_divisions, 1, Len(output_divisions) - 1)),
            BlockwiseDep(Tail(output_divisions)),
            BlockwiseDep(Repeat(Lit("str", "left"), Len(Tail(output_divisions)))),
            e.ops[2], __getattribute__(e, "kwargs", "value"), how(e.type), fill_value,
            list(e.ops[4]), __getattribute__(e, "how_kwargs", "value")>>)

\* ResampleReduction._lower(), divs being self._resample_divisions
_lower(e, divs) ==
  LET partitioned == Repartition(e.ops[1], divs[1])
      output_divisions == divs[2]
  IN  New("ResampleAggregation",
          <<partitioned,
            BlockwiseDep(SubSeq(output_divisions, 1, Len(output_divisions) - 1)),
            BlockwiseDep(Tail(output_divisions)),
            BlockwiseDep(Repeat(Lit("str", "left"), Len(Tail(output_divisions)) - 1)
                           \o <<None>>),
            e.ops[2], __getattribute__(e, "kwargs", "value"), how(e.type), fill_value,
            list(e.ops[4]), __getattribute__(e, "how_kwargs", "value")>>)

\* ResampleAggregation._blockwise_arg(arg, i), i counted from 0; any other
\* argument is left to Blockwise: a node gives the key of its partition i, a
\* literal itself
_blockwise_arg(a, i) ==
  IF a.k = "blockwisedep" THEN a.iterable[i + 1]
  ELSE IF IsExpr(a) THEN [k |-> "key", of |-> a, i |-> i]
  ELSE a

\* the arguments of the task of partition i
BlockwiseArgs(e, i) == [j \in DOMAIN e.ops |-> _blockwise_arg(e.ops[j], i)]

InitResampler ==
  /\ op = "resample"
  /\ self \in {Collection(fr) : fr \in Frames}
  /\ arg \in [rule : {Lit("str", "D")}, kwargs : {Lit("dict", 0), Lit("dict", 1)},
              expr_cls : ResampleReductions, how_kwargs : {None, Lit("dict", 1)},
              divs : BinAndOutDivs]
  /\ hooks = NoHooks
  /\ pc = "call"
  /\ result = None
  /\ stack = <<>> /\ seen = {} /\ layers = <<>> /\ layerCalls = <<>>
  /\ frames = <<>> /\ expr = None /\ dependents = EmptyDict
  /\ lastHook = NoCall /\ first = None /\ cache = EmptyDict /\ returned = None

\* Resampler(obj, rule, **kwargs)
ResamplerCall ==
  /\ op = "resample" /\ pc = "call"
  /\ result' = Resampler__init__(self, arg.rule, arg.kwargs)
  /\ pc' = IF IsRaised(result') THEN "raised" ELSE "resampler"
  /\ UNCHANGED <<hooks, op, self, arg, first, expr, returned>>
  /\ UNCHANGED <<stack, seen, layers, layerCalls, frames, dependents, lastHook, cache>>

\* resampler.count() and the like: the reduction node is constructed
SingleAggCall ==
  /\ op = "resample" /\ pc = "resampler"
  /\ expr' = _single_agg(result, arg.expr_cls, Lit("tuple", <<>>), arg.how_kwargs)
  /\ pc' = "reduction"
  /\ UNCHANGED <<hooks, op, self, arg, first, result, returned>>
  /\ UNCHANGED <<stack, seen, layers, layerCalls, frames, dependents, lastHook, cache>>

\* expr._lower()
LowerCall ==
  /\ op = "resample" /\ pc = "reduction"
  /\ returned' = _lower(expr, arg.divs)
  /\ pc' = "lowered"
  /\ UNCHANGED <<hooks, op, self, arg, first, result, expr>>
  /\ UNCHANGED <<stack, seen, layers, layerCalls, frames, dependents, lastHook, cache>>

\* the arguments of the task of one partition of the aggregation
BlockwiseArgsCall ==
  /\ op = "resample" /\ pc = "lowered"
  /\ \E i \in 0..(Len(arg.divs[2]) - 2) :
       layerCalls' = <<[i |-> i, args |-> BlockwiseArgs(returned, i)]>>
  /\ pc' = "task"
  /\ UNCHANGED <<hooks, op, self, arg, first, result, expr, returned>>
  /\ UNCHANGED <<stack, seen, layers, frames, dependents, lastHook, cache>>

NextResampler == ResamplerCall \/ SingleAggCall \/ LowerCall \/ BlockwiseArgsCall

SpecResampler == InitResampler /\ [][NextResampler]_vars

\* C22: creating a resampler over a frame whose leading boundary is unknown
\* fails with ValueError at the creation, before any resample node is
\* constructed and before any lowering; with a known one it succeeds.
UnknownLeading == divisions(self.expr)[1] = None

C22_UnknownDivisionsRejected ==
  op = "resample" =>
    /\ UnknownLeading =>
         /\ pc \in {"call", "raised"}
         /\ pc = "raised" => result = Raised(Exception("ValueError"))
         /\ expr = None /\ returned = None
    /\ ~UnknownLeading =>
         /\ pc # "raised"
         /\ pc # "call" =>
              result = [k |-> "resampler", obj |-> self, rule |-> arg.rule, kwargs |-> arg.kwargs]

C22_Witness ==
  /\ op = "resample" /\ UnknownLeading /\ pc = "raised"

C22_WitnessKnown ==
  /\ op = "resample" /\ ~UnknownLeading /\ pc = "lowered"

\* C23: lowering a resample reduction with output divisions d[0..n] gives a
\* ResampleAggregation over a forced Repartition of the frame to the bin
\* divisions, with three tables of length n: left[i] = d[i], right[i] = d[i+1],
\* closed[i] = "left" but for the last entry, None; partition i receives entry
\* i of each table.
C23_LoweredToAggregation ==
  (op = "resample" /\ pc \in {"lowered", "task"}) =>
    LET d == arg.divs[2]
        n == Len(d) - 1
        left == returned.ops[2].iterable
        right == returned.ops[3].iterable
        closed == returned.ops[4].iterable
    IN  /\ returned.type = "ResampleAggregation"
        /\ returned.ops[1] =
             Node("Repartition", <<expr.ops[1], Lit("tuple", arg.divs[1]), Lit("bool", 1)>>, 0)
        /\ expr.ops[1] = self.expr
        /\ Len(left) = n /\ Len(right) = n /\ Len(closed) = n
        /\ \A i \in 1..n :
             /\ left[i] = d[i] /\ right[i] = d[i + 1]
             /\ closed[i] = IF i = n THEN None ELSE Lit("str", "left")
        /\ returned.ops[5] = expr.ops[2] /\ returned.ops[7] = how(expr.type)
        /\ pc = "task" =>
             LET t == layerCalls[1] IN
               /\ t.args[2] = left[t.i + 1]
               /\ t.args[3] = right[t.i + 1]
               /\ t.args[4] = closed[t.i + 1]

C23_Witness ==
  /\ op = "resample" /\ pc = "task" /\ Len(arg.divs[2]) = 4 /\ Len(arg.divs[1]) = 2
  /\ layerCalls[1].i = 1 /\ layerCalls[1].args[4] = Lit("str", "left")

C23_WitnessOnePartition ==
  /\ op = "resample" /\ pc = "task" /\ Len(arg.divs[2]) = 2
  /\ layerCalls[1].args[4] = None

-----------------------------------------------------------------------------
(* Serialization: Expr.__reduce__ and the process-wide configuration *)

NoSerialize == "dask-expr-no-serialize"

\* dask.config.get(key, default)
config_get(config, key, default) == IF key \in DOMAIN config THEN config[key] ELSE default

\* the truth value of a configuration value
Truthy(x) == x.v # 0

\* Expr.__reduce__()
__reduce__(e, config) ==
  IF Truthy(config_get(config, NoSerialize, Lit("bool", 0)))
  THEN Raised(Exception("RuntimeError"))
  ELSE [k |-> "reduce", type |-> e.type, args |-> e.ops]

\* what pickle does with the value of __reduce__: type(*operands)
Reconstruct(r) == New(r.type, r.args)

\* the arguments nodes are constructed from: numbers, nodes, collections
SerializeArgs ==
  ArgValues \cup Leaves({1, 2}) \cup {Node("Neg", <<l>>, 1) : l \in Leaves({1})}

SerializeCalls ==
  {[type |-> "Neg", args |-> <<a>>] : a \in SerializeArgs}
    \cup {[type |-> "Add", args |-> <<a, b>>] : a \in SerializeArgs, b \in SerializeArgs}
    \cup {[type |-> "ResampleCount", args |-> <<fr, Lit("str", "D"), kw>>] :
            fr \in Frames, kw \in {None, Lit("dict", 1)}}

Configs ==
  {EmptyDict} \cup {[key \in {NoSerialize} |-> Lit("bool", b)] : b \in {0, 1}}

InitSerialize ==
  /\ op = "reduce"
  /\ arg \in SerializeCalls
  /\ cache \in Configs
  /\ self = None
  /\ hooks = NoHooks
  /\ pc = "call"
  /\ result = None
  /\ stack = <<>> /\ seen = {} /\ layers = <<>> /\ layerCalls = <<>>
  /\ frames = <<>> /\ expr = None /\ dependents = EmptyDict
  /\ lastHook = NoCall /\ first = None /\ returned = None

\* dask.config.set({"dask-expr-no-serialize": value}), at any moment
ConfigSet ==
  /\ op = "reduce"
  /\ \E b \in {0, 1} :
       /\ cache' = [key \in {NoSerialize} |-> Lit("bool", b)]
       /\ cache' # cache
  /\ UNCHANGED <<hooks, op, self, arg, pc, result, first, expr, returned>>
  /\ UNCHANGED <<stack, seen, layers, layerCalls, frames, dependents, lastHook>>

\* type(*args): the node is constructed; `first` keeps the value the flag had
ConstructNode ==
  /\ op = "reduce" /\ pc = "call"
  /\ expr' = Node(arg.type, InitOperands(arg.type, arg.args, NoKwargs), 1)
  /\ first' = config_get(cache, NoSerialize, Lit("bool", 0))
  /\ pc' = "constructed"
  /\ UNCHANGED <<hooks, op, self, arg, result, returned, cache>>
  /\ UNCHANGED <<stack, seen, layers, layerCalls, frames, dependents, lastHook>>

\* a serialization that goes by the value the flag had at the construction
ReduceCallAtConstruction ==
  /\ op = "reduce" /\ pc = "constructed"
  /\ result' = __reduce__(expr, [key \in {NoSerialize} |-> first])
  /\ pc' = IF IsRaised(result') THEN "raised" ELSE "reduced"
  /\ UNCHANGED <<hooks, op, self, arg, first, expr, returned, cache>>
  /\ UNCHANGED <<stack, seen, layers, layerCalls, frames, dependents, lastHook>>

\* pickle.dumps(expr): expr.__reduce__()
ReduceCall ==
  /\ op = "reduce" /\ pc = "constructed"
  /\ result' = __reduce__(expr, cache)
  /\ pc' = IF IsRaised(result') THEN "raised" ELSE "reduced"
  /\ UNCHANGED <<hooks, op, self, arg, first, expr, returned, cache>>
  /\ UNCHANGED <<stack, seen, layers, layerCalls, frames, dependents, lastHook>>

\* pickle.loads: the node is constructed again from (type, operands)
ReconstructCall ==
  /\ op = "reduce" /\ pc = "reduced"
  /\ returned' = Reconstruct(result)
  /\ pc' = "done"
  /\ UNCHANGED <<hooks, op, self, arg, first, expr, result, cache>>
  /\ UNCHANGED <<stack, seen, layers, layerCalls, frames, dependents, lastHook>>

NextSerialize == ConfigSet \/ ConstructNode \/ ReduceCall \/ ReconstructCall

SpecSerialize == InitSerialize /\ [][NextSerialize]_vars

FlagSet == NoSerialize \in DOMAIN cache /\ cache[NoSerialize].v # 0

\* C24: the no-serialize flag is read when a node is serialized, not when it
\* is constructed: __reduce__ raises RuntimeError exactly when the flag is set
\* at that moment, whatever it was at construction; otherwise it yields
\* (type, operands), and reconstruction gives a node of the same identity.
C24_FlagReadAtSerialization ==
  /\ [][(op = "reduce" /\ pc = "constructed" /\ pc' # "constructed") =>
          IF FlagSet
          THEN pc' = "raised" /\ result' = Raised(Exception("RuntimeError"))
          ELSE /\ pc' = "reduced"
               /\ result' = [k |-> "reduce", type |-> expr.type, args |-> expr.ops]]_vars
  /\ []((op = "reduce" /\ pc = "done") =>
          /\ _name(returned) = _name(expr)
          /\ returned.type = expr.type /\ returned.ops = expr.ops)

C24_Witness ==
  /\ op = "reduce" /\ pc = "raised" /\ first = Lit("bool", 0)

C24_WitnessReconstructed ==
  /\ op = "reduce" /\ pc = "done" /\ first = Lit("bool", 1)
  /\ expr.type = "ResampleCount" /\ Len(arg.args) < Len(returned.ops)

C24_WitnessUnpacked ==
  /\ op = "reduce" /\ pc = "done" /\ arg.args[1].k = "collection"

-----------------------------------------------------------------------------
(* Merges with the p2p shuffle method, materialized *)

\* two frames of different columns and partition counts
ShuffleFrames ==
  {Node("FromPandas", <<Lit("tuple", <<"a", "b">>), Divisions(<<0, 10>>)>>, 1),
   Node("FromPandas", <<Lit("tuple", <<"x", "y">>), Divisions(<<0, 5, 10>>)>>, 1)}

\* the columns a merge may be keyed on: those of the frame, of a merge both
\* sides'
RECURSIVE KeyColumns(_)
KeyColumns(e) ==
  IF e.type = "FromPandas" THEN {e.ops[1].v[i] : i \in DOMAIN e.ops[1].v}
  ELSE KeyColumns(e.ops[1]) \cup KeyColumns(e.ops[2])

\* left.merge(right, left_on=, right_on=, npartitions=, shuffle_method="p2p")
Merges(lefts, rights) ==
  UNION {{Node("Merge", <<l, r, Lit("str", lo), Lit("str", ro), np>>, 1) :
            lo \in KeyColumns(l), ro \in KeyColumns(r), np \in {None, Lit("int", MaxParts)}} :
         l \in lefts, r \in rights}

FirstMerges == Merges(ShuffleFrames, ShuffleFrames)

\* a merge, or a merge of a merge with a frame on either side
ShufflePlans ==
  FirstMerges \cup Merges(FirstMerges, ShuffleFrames) \cup Merges(ShuffleFrames, FirstMerges)

InitShuffle ==
  /\ op = "materialize"
  /\ self \in ShufflePlans
  /\ hooks = NoHooks
  /\ InitLocals

NextShuffle == MaterializeCall \/ MaterializeStep \/ MaterializeReturn

SpecShuffle == InitShuffle /\ [][NextShuffle]_vars

\* the merges of a plan, and the redistributions they ask for
PlanMerges == {n \in Nodes(self) : n.type = "Merge"}
Redistributions == PlanMerges \X {1, 2}
Upstream(rd) == _name(rd[1].ops[rd[2]])
ShuffleParameters(rd) == <<rd[1].ops[rd[2] + 2].v, npartitions(rd[1])>>
SameRedistribution(r1, r2) ==
  Upstream(r1) = Upstream(r2) /\ ShuffleParameters(r1) = ShuffleParameters(r2)

\* the shuffle identities among the keys of the materialized graph
Materialized == {id_from_key(key) : key \in {q \in DOMAIN result : "k" \in DOMAIN q}}
IdentitiesOf(rd) == {id \in Materialized : id.frame = Upstream(rd)
                       /\ <<id.on, id.npartitions>> = ShuffleParameters(rd)}

C25_TestCounts ==
  (op = "materialize" /\ pc = "done") =>
    LET n == Cardinality(Materialized) IN
      /\ (Cardinality(PlanMerges) = 1 /\ self.ops[3] # self.ops[4]) => n = 2
      /\ (Cardinality(PlanMerges) = 2 /\ \A q \in PlanMerges : q.ops[3] # q.ops[4]) => n = 4

C25_WitnessDiffering ==
  /\ op = "materialize" /\ pc = "done" /\ self.ops[1].type = "Merge"
  /\ \E r1, r2 \in Redistributions :
       /\ r1[1] # r2[1] /\ Upstream(r1) = Upstream(r2)
       /\ ShuffleParameters(r1)[1] = ShuffleParameters(r2)[1]
       /\ ShuffleParameters(r1)[2] # ShuffleParameters(r2)[2]

C25_WitnessSelfMerge ==
  /\ op = "materialize" /\ pc = "done" /\ self.ops[1] = self.ops[2]
  /\ self.ops[3] # self.ops[4] /\ Cardinality(Materialized) = 2

-----------------------------------------------------------------------------
(* Projection of a merge, simplified *)

\* the sources: both have the key "x", the other columns are their own
SourceA == Node("FromPandas", <<Lit("tuple", <<"x", "y", "z">>), Divisions(<<0, 5, 10>>)>>, 1)
SourceB == Node("FromPandas", <<Lit("tuple", <<"x", "w">>), Divisions(<<0, 10>>)>>, 1)
SourceC == Node("FromPandas", <<Lit("tuple", <<"x", "v">>), Divisions(<<0, 10>>)>>, 1)

\* left.merge(right, on="x")
MergeOn(left, right) ==
  Node("Merge", <<left, right, Lit("str", "x"), Lit("str", "x"), None>>, 1)

\* the merges: of two sources, of a node with no hook of its own over a
\* source, of a merge
Joins ==
  {MergeOn(SourceA, SourceB), MergeOn(Node("Neg", <<SourceA>>, 1), SourceB),
   MergeOn(MergeOn(SourceA, SourceC), SourceB)}

\* the subsequences of a sequence
Subsequences(s) ==
  {SelectSeq(s, LAMBDA c : c \in S) : S \in SUBSET {s[i] : i \in DOMAIN s}}

\* the projections onto a strict, non-empty subset of the columns
StrictProjections(j) == Subsequences(columns(j)) \ {<<>>, columns(j)}

\* merge[cols], and the same plan built by projecting the inputs first
ProjectedLast(j, cols) == Node("Projection", <<j, Lit("tuple", cols)>>, 1)
ProjectedFirst(j, cols) ==
  Node("Projection",
       <<Node("Merge",
              <<Node("Projection", <<j.ops[1], Lit("tuple", Needed(j.ops[1], "x", cols))>>, 1),
                Node("Projection", <<j.ops[2], Lit("tuple", Needed(j.ops[2], "x", cols))>>, 1)>>
                \o SubSeq(j.ops, 3, 5), 1),
         Lit("tuple", cols)>>, 1)

\* both plans, under one node that has no hooks
PlanPairs ==
  UNION {{Node("Add", <<ProjectedLast(j, cols), ProjectedFirst(j, cols)>>, 1) :
            cols \in StrictProjections(j)} : j \in Joins}

MergeTypes == {"FromPandas", "Projection", "Merge", "Neg", "Add"}

\* the hooks the classes define
MergeHooks ==
  [down |-> [t \in MergeTypes |-> IF t = "Projection" THEN "projection" ELSE "none"],
   up |-> [t \in MergeTypes |->
             CASE t = "Merge" -> "merge"
               [] t = "FromPandas" -> "frompandas"
               [] OTHER -> "none"]]

InitProjection ==
  /\ op \in SimplifyOps
  /\ self \in PlanPairs
  /\ hooks = MergeHooks
  /\ InitLocals

NextProjection ==
  EngineCall \/ SimplifyOnceDown \/ SimplifyOnceUp \/ SimplifyOnceChildren \/ CallAgain

SpecProjection == InitProjection /\ [][NextProjection]_vars

\* the number of tasks a plan materializes to
TaskCount(e) == Cardinality(UNION {DOMAIN _layer(n) : n \in Nodes(e)})

\* the merge of a simplified plan: the plan, or what its projection is of
JoinOf(e) == IF e.type = "Merge" THEN e ELSE e.ops[1]

\* every column a side of the merge has, the projection or the key needs
OnlyNeeded(e, cols) ==
  \A side \in {1, 2} :
    \A i \in DOMAIN columns(JoinOf(e).ops[side]) :
      LET c == columns(JoinOf(e).ops[side])[i]
      IN  c = "x" \/ \E k \in DOMAIN cols : cols[k] = c

\* simplify has returned from its call on the plan pair
Simplified == op = "simplify" /\ pc = "done" /\ IsExpr(result) /\ first = None

Absorbs(e) == e.type = "FromPandas"

C26_WitnessKeys ==
  /\ Simplified /\ self.ops[1].ops[2].v = <<"x">> /\ result.ops[1].type = "Merge"

C26_WitnessMoreTasks ==
  /\ Simplified /\ TaskCount(result.ops[1]) > TaskCount(self.ops[1])

====
